---- MODULE Spec2Model ----
(***************************************************************************)
(* Acoustic text transceiver: character codec, protocol table, sender      *)
(* packet assembly and the receiver hook (debounce + packet framing).      *)
(*                                                                         *)
(* Characters are UTF-16 code units (what charCodeAt returns); a string is *)
(* a sequence of code units.                                               *)
(***************************************************************************)
EXTENDS Integers, Sequences, FiniteSets, TLC

VARIABLES
    isListening,              \* React state isListening
    streamRef,                \* TRUE when streamRef.current holds a MediaStream
    audioContextRef,          \* TRUE when audioContextRef.current holds a context
    analyserRef,              \* TRUE when analyserRef.current holds an analyser
    sourceRef,                \* TRUE when sourceRef.current holds a source node
    frameScheduled,           \* a requestAnimationFrame callback is pending
    pendingFrames,            \* number of requestAnimationFrame callbacks pending
    liveStreams,              \* MediaStreams obtained whose tracks have not been stopped
    startPending,             \* startListening calls awaiting getUserMedia
    mounted,                  \* the component using the hook is mounted
    receivingStateRef,        \* framing state machine
    decoderStateRef,          \* debounce state machine
    currentMessageBufferRef,  \* tokens buffered since START
    lastCharTimestampRef,     \* performance.now() of the last token (0 = none)
    silenceFramesCounterRef,  \* quiet-frame counter of the debounce machine
    ambientNoiseLevelRef,     \* AGC noise estimate, in hundredths
    currentThreshold,         \* React state currentThreshold
    loopThreshold,            \* currentThreshold as captured by the running analysisLoop closure
    decodedMessages,          \* the message log
    now,                      \* performance.now(), in ms
    protocolId,               \* sender: selected protocol
    message,                  \* sender: message typed by the user
    packet,                   \* sender: transmissionTokens built by playMessage
    pos,                      \* channel: number of tokens already played
    phase,                    \* sender/channel position
    isTransmitting,           \* sender: React state isTransmitting
    isSaving,                 \* sender: React state isSaving
    events,                   \* live path: onProgress calls, tones and pauses, in order
    wav,                      \* offline path: what generateMessageWav scheduled and returned
    probe,                    \* input/output pair of the last pure-function evaluation
    lastFrame                 \* history: what the most recent step did to the framing machine

vars == <<isListening, streamRef, audioContextRef, analyserRef, sourceRef,
          frameScheduled, pendingFrames, liveStreams, startPending, mounted,
          receivingStateRef, decoderStateRef,
          currentMessageBufferRef, lastCharTimestampRef, silenceFramesCounterRef,
          ambientNoiseLevelRef, currentThreshold, loopThreshold, decodedMessages,
          now, protocolId, message, packet, pos, phase, isTransmitting, isSaving,
          events, wav, probe, lastFrame>>

resourceVars == <<isListening, streamRef, audioContextRef, analyserRef, sourceRef, frameScheduled,
                  pendingFrames, liveStreams, startPending, mounted>>
receiverVars == <<receivingStateRef, decoderStateRef, currentMessageBufferRef,
                  lastCharTimestampRef, silenceFramesCounterRef>>
agcVars      == <<ambientNoiseLevelRef, currentThreshold, loopThreshold>>
txVars       == <<isTransmitting, isSaving, events, wav>>
senderVars   == <<protocolId, message, packet, pos, phase, txVars>>

----------------------------------------------------------------------------
(* Bounds of the model                                                     *)

MaxBuf    == 2      \* longest buffer a session of the free-running receiver accumulates
MaxLog    == 2      \* longest message log of the free-running receiver
MaxTicks  == 3      \* clock ticks of the free-running receiver
TickMs    == 2500   \* length of one clock tick, ms
MaxMsgLen == 4      \* longest message typed into the sender

----------------------------------------------------------------------------
(* Generic helpers                                                         *)

NoValue == -1       \* JavaScript undefined / null

SetMax(S) == CHOOSE x \in S : \A y \in S : y <= x

RECURSIVE SeqOver(_, _)
SeqOver(S, n) ==
    IF n = 0 THEN { <<>> }
    ELSE LET shorter == SeqOver(S, n - 1)
         IN  shorter \cup { Append(s, x) : s \in { t \in shorter : Len(t) = n - 1 }, x \in S }

RECURSIVE Flatten(_)
Flatten(ss) == IF ss = <<>> THEN <<>> ELSE Head(ss) \o Flatten(Tail(ss))

Range(s) == { s[i] : i \in 1..Len(s) }

----------------------------------------------------------------------------
(* constants.ts                                                            *)

Star == 42          \* '*'
Hash == 35          \* '#'
Zero == 48          \* '0'
ReplacementChar == 65533   \* U+FFFD

DTMF_CHARACTERS == <<49, 50, 51, 52, 53, 54, 55, 56, 57, 42, 48, 35>>

TEXT_PROTOCOL_CHARS_LOWER ==
    <<1072, 1073, 1074, 1075, 1076, 1077, 1105, 1078, 1079, 1080, 1081, 1082,
      1083, 1084, 1085, 1086, 1087, 1088, 1089, 1090, 1091, 1092, 1093, 1094,
      1095, 1096, 1097, 1098, 1099, 1100, 1101, 1102, 1103,
      97, 98, 99, 100, 101, 102, 103, 104, 105, 106, 107, 108, 109, 110, 111,
      112, 113, 114, 115, 116, 117, 118, 119, 120, 121, 122>>

TEXT_PROTOCOL_CHARS_OTHER ==
    <<48, 49, 50, 51, 52, 53, 54, 55, 56, 57, 32, 46, 44, 33, 63>>

TEXT_PROTOCOL_CHARSET == TEXT_PROTOCOL_CHARS_LOWER \o TEXT_PROTOCOL_CHARS_OTHER

\* String(index): the decimal digits of a non-negative integer
RECURSIVE DecimalString(_)
DecimalString(n) ==
    IF n < 10 THEN << Zero + n >>
    ELSE Append(DecimalString(n \div 10), Zero + (n % 10))

\* s.padStart(width, fill)
RECURSIVE padStart(_, _, _)
padStart(s, width, fill) ==
    IF Len(s) >= width THEN s ELSE padStart(<<fill>> \o s, width, fill)

\* the code the map constructor is handed for the character at a 0-based index
IndexCode(index) == padStart(DecimalString(index), 2, Zero)

TEXT_ENCODING_MAP_Shifted ==
    [ c \in Range(TEXT_PROTOCOL_CHARSET) |->
        IndexCode(SetMax({ i \in 1..Len(TEXT_PROTOCOL_CHARSET) : TEXT_PROTOCOL_CHARSET[i] = c })) ]

\* new Map(charset.split('').map((char, index) => [char, String(index).padStart(2,'0')]))
\* (a Map keeps the last entry written for a key)
TEXT_ENCODING_MAP ==
    [ c \in Range(TEXT_PROTOCOL_CHARSET) |->
        IndexCode(SetMax({ i \in 1..Len(TEXT_PROTOCOL_CHARSET) : TEXT_PROTOCOL_CHARSET[i] = c }) - 1) ]

\* new Map(entries(TEXT_ENCODING_MAP).map(([char, code]) => [code, char]))
TEXT_DECODING_MAP ==
    LET codes == { TEXT_ENCODING_MAP[c] : c \in DOMAIN TEXT_ENCODING_MAP }
        FirstIndex(c) == CHOOSE i \in 1..Len(TEXT_PROTOCOL_CHARSET) :
                            /\ TEXT_PROTOCOL_CHARSET[i] = c
                            /\ \A j \in 1..(i - 1) : TEXT_PROTOCOL_CHARSET[j] # c
    IN  [ code \in codes |->
            LET cs   == { c \in DOMAIN TEXT_ENCODING_MAP : TEXT_ENCODING_MAP[c] = code }
                last == CHOOSE c \in cs : \A d \in cs : FirstIndex(d) <= FirstIndex(c)
            IN  last ]

\* Map.get: the value, or undefined
MapGet(map, key) == IF key \in DOMAIN map THEN map[key] ELSE NoValue

----------------------------------------------------------------------------
(* RECEIVER_CONFIG, constants.ts                                           *)

INITIAL_DETECTION_THRESHOLD == 180
MIN_DETECTION_THRESHOLD     == 130
MAX_DETECTION_THRESHOLD     == 230
AGC_NOISE_SENSITIVITY_PCT   == 2      \* AGC_NOISE_SENSITIVITY 0.02, in percent
AGC_THRESHOLD_OFFSET        == 30
MESSAGE_TIMEOUT_MS          == 5000
InitialAmbientNoise         == 40     \* useRef(40)

\* the tokens the receiver of useAudioProcessor.ts buffers (FSK_CHARACTERS.includes)
FSK_CHARACTERS == DTMF_CHARACTERS

IsDigit(c) == c \in Zero..(Zero + 9)

----------------------------------------------------------------------------
(* useAudioProcessor.ts: the framing machine                               *)
(* A framing state fs is the record of the refs and of the log that the    *)
(* handlers read and write; a log entry is [text, status] (the timestamp   *)
(* string is not modelled).                                                *)

Text_OddData  == <<91, 1054, 1096, 1080, 1073, 1082, 1072, 58, 32, 1053, 1077, 1095,
                   1077, 1090, 1085, 1099, 1077, 32, 1076, 1072, 1085, 1085, 1099,
                   1077, 93>>                       \* "[Oshibka: Nechetnye dannye]"
Reason_Timeout  == <<1058, 1072, 1081, 1084, 45, 1072, 1091, 1090>>    \* "Taim-aut"
Reason_NewStart == <<1053, 1086, 1074, 1099, 1081, 32, 1089, 1090, 1072, 1088, 1090>> \* "Novyi start"

\* `[${reason}: ${bufferContent}]`
ErrorText(reason, bufferContent) == <<91>> \o reason \o <<58, 32>> \o bufferContent \o <<93>>

Entry(text, status) == [text |-> text, status |-> status]

FramingState == [ receivingState |-> receivingStateRef,
                  buffer         |-> currentMessageBufferRef,
                  lastChar       |-> lastCharTimestampRef,
                  log            |-> decodedMessages ]

handleDecodingError_AlwaysLog(fs, reason, bufferContent) ==
    [ fs EXCEPT !.log = Append(fs.log, Entry(ErrorText(reason, bufferContent), "error")),
                !.receivingState = "IDLE",
                !.buffer = <<>>,
                !.lastChar = 0 ]

handleDecodingError_KeepBuffer(fs, reason, bufferContent) ==
    [ fs EXCEPT !.log = IF Len(bufferContent) > 0
                        THEN Append(fs.log, Entry(ErrorText(reason, bufferContent), "error"))
                        ELSE fs.log,
                !.receivingState = "IDLE",
                !.lastChar = 0 ]

\* variant: the error entry takes the place of the log's last entry
handleDecodingError_ReplaceLast(fs, reason, bufferContent) ==
    [ fs EXCEPT !.log = IF Len(bufferContent) > 0
                        THEN IF Len(fs.log) > 0
                             THEN [ fs.log EXCEPT ![Len(fs.log)] =
                                      Entry(ErrorText(reason, bufferContent), "error") ]
                             ELSE << Entry(ErrorText(reason, bufferContent), "error") >>
                        ELSE fs.log,
                !.receivingState = "IDLE",
                !.buffer = <<>>,
                !.lastChar = 0 ]

handleDecodingError(fs, reason, bufferContent) ==
    [ fs EXCEPT !.log = IF Len(bufferContent) > 0
                        THEN Append(fs.log, Entry(ErrorText(reason, bufferContent), "error"))
                        ELSE fs.log,
                !.receivingState = "IDLE",
                !.buffer = <<>>,
                !.lastChar = 0 ]

\* the loop of decodeMessageFromDigits over the pairs starting at 1-based position i
RECURSIVE DecodePairs(_, _)
DecodePairs(digitString, i) ==
    IF i > Len(digitString) THEN <<>>
    ELSE LET pair == SubSeq(digitString, i, IF i + 1 <= Len(digitString) THEN i + 1 ELSE i)
             char == MapGet(TEXT_DECODING_MAP, pair)
         IN  << IF char # NoValue THEN char ELSE ReplacementChar >>
             \o DecodePairs(digitString, i + 2)

decodeMessageFromDigits_NoParityCheck(digitString) ==
    [ text    |-> DecodePairs(digitString, 1),
      status  |-> "success",
      lookups |-> (Len(digitString) + 1) \div 2 ]

decodeMessageFromDigits_DropUnknown(digitString) ==
    IF Len(digitString) % 2 # 0
    THEN [ text |-> Text_OddData, status |-> "error", lookups |-> 0 ]
    ELSE [ text    |-> SelectSeq(DecodePairs(digitString, 1), LAMBDA c : c # ReplacementChar),
           status  |-> "success",
           lookups |-> Len(digitString) \div 2 ]

\* lookups: the number of TEXT_DECODING_MAP.get calls made
decodeMessageFromDigits(digitString) ==
    IF Len(digitString) % 2 # 0
    THEN [ text |-> Text_OddData, status |-> "error", lookups |-> 0 ]
    ELSE [ text    |-> DecodePairs(digitString, 1),
           status  |-> "success",
           lookups |-> Len(digitString) \div 2 ]

processDecodedChar_BufferWhileIdle(fs, char, t) ==
    LET fs1 == [ fs EXCEPT !.lastChar = t ]
    IN  CASE char = Star ->
               [ fs1 EXCEPT !.receivingState = "RECEIVING", !.buffer = <<>>, !.lastChar = t ]
          [] char = Hash ->
               [ fs1 EXCEPT !.receivingState = "IDLE", !.buffer = <<>>,
                            !.log = IF Len(fs1.buffer) > 0
                                    THEN Append(fs1.log, Entry(decodeMessageFromDigits(fs1.buffer).text,
                                                               decodeMessageFromDigits(fs1.buffer).status))
                                    ELSE fs1.log ]
          [] OTHER -> [ fs1 EXCEPT !.buffer = Append(fs1.buffer, char) ]

processDecodedChar_SilentRestart(fs, char, t) ==
    LET fs1 == [ fs EXCEPT !.lastChar = t ]
    IN  CASE char = Star ->
               [ fs1 EXCEPT !.receivingState = "RECEIVING", !.buffer = <<>>, !.lastChar = t ]
          [] char = Hash ->
               IF fs1.receivingState = "RECEIVING"
               THEN [ fs1 EXCEPT !.receivingState = "IDLE", !.buffer = <<>>,
                                 !.log = IF Len(fs1.buffer) > 0
                                         THEN Append(fs1.log, Entry(decodeMessageFromDigits(fs1.buffer).text,
                                                                    decodeMessageFromDigits(fs1.buffer).status))
                                         ELSE fs1.log ]
               ELSE fs1
          [] OTHER ->
               IF fs1.receivingState = "RECEIVING" /\ char \in Range(FSK_CHARACTERS)
               THEN [ fs1 EXCEPT !.buffer = Append(fs1.buffer, char) ]
               ELSE fs1

processDecodedChar_LogEmptyPacket(fs, char, t) ==
    LET fs1 == [ fs EXCEPT !.lastChar = t ]
    IN  CASE char = Star ->
               LET fs2 == IF fs1.receivingState = "RECEIVING" /\ Len(fs1.buffer) > 0
                          THEN handleDecodingError(fs1, Reason_NewStart, fs1.buffer)
                          ELSE fs1
               IN  [ fs2 EXCEPT !.receivingState = "RECEIVING", !.buffer = <<>>, !.lastChar = t ]
          [] char = Hash ->
               [ fs1 EXCEPT !.receivingState = "IDLE", !.buffer = <<>>,
                            !.log = Append(fs1.log, Entry(decodeMessageFromDigits(fs1.buffer).text,
                                                          decodeMessageFromDigits(fs1.buffer).status)) ]
          [] OTHER ->
               IF fs1.receivingState = "RECEIVING" /\ char \in Range(FSK_CHARACTERS)
               THEN [ fs1 EXCEPT !.buffer = Append(fs1.buffer, char) ]
               ELSE fs1

\* variant: a digit equal to the last buffered digit is taken for a repeat and dropped
processDecodedChar_DedupDigits(fs, char, t) ==
    LET fs0 == [fs EXCEPT !.lastChar = t]
    IN  IF char = Star
        THEN LET fs1 == IF fs0.receivingState = "RECEIVING" /\ fs0.buffer # <<>>
                        THEN handleDecodingError(fs0, Reason_NewStart, fs0.buffer)
                        ELSE fs0
             IN  [fs1 EXCEPT !.receivingState = "RECEIVING", !.buffer = <<>>, !.lastChar = t]
        ELSE IF char = Hash
        THEN IF fs0.receivingState = "RECEIVING"
             THEN LET r == decodeMessageFromDigits(fs0.buffer)
                  IN  [fs0 EXCEPT !.receivingState = "IDLE", !.buffer = <<>>,
                                  !.log = IF fs0.buffer # <<>>
                                          THEN Append(fs0.log, Entry(r.text, r.status))
                                          ELSE fs0.log]
             ELSE fs0
        ELSE IF /\ fs0.receivingState = "RECEIVING"
                /\ char \in Range(FSK_CHARACTERS)
                /\ (fs0.buffer = <<>> \/ fs0.buffer[Len(fs0.buffer)] # char)
             THEN [fs0 EXCEPT !.buffer = Append(fs0.buffer, char)]
             ELSE fs0

processDecodedChar(fs, char, t) ==
    LET fs1 == [ fs EXCEPT !.lastChar = t ]
    IN  CASE char = Star ->
               LET fs2 == IF fs1.receivingState = "RECEIVING" /\ Len(fs1.buffer) > 0
                          THEN handleDecodingError(fs1, Reason_NewStart, fs1.buffer)
                          ELSE fs1
               IN  [ fs2 EXCEPT !.receivingState = "RECEIVING", !.buffer = <<>>, !.lastChar = t ]
          [] char = Hash ->
               IF fs1.receivingState = "RECEIVING"
               THEN LET receivedDigitString == fs1.buffer
                        decoded == decodeMessageFromDigits(receivedDigitString)
                        fs2 == IF Len(receivedDigitString) > 0
                               THEN [ fs1 EXCEPT !.log = Append(fs1.log, Entry(decoded.text, decoded.status)) ]
                               ELSE fs1
                    IN  [ fs2 EXCEPT !.receivingState = "IDLE", !.buffer = <<>> ]
               ELSE fs1
          [] OTHER ->
               IF fs1.receivingState = "RECEIVING" /\ char \in Range(FSK_CHARACTERS)
               THEN [ fs1 EXCEPT !.buffer = Append(fs1.buffer, char) ]
               ELSE fs1

----------------------------------------------------------------------------
(* useAudioProcessor.ts: one analysis frame                                *)
(* A frame is the spectrum the analyser returns, reduced to what the loop  *)
(* reads from it: peak = the largest magnitude, avg = the mean magnitude,  *)
(* tone = the token whose frequency is nearest the peak bin when it lies   *)
(* within the tolerance, NoValue otherwise.                                *)

TimedOut_AtOrAfter(fs, t) ==
    /\ fs.receivingState = "RECEIVING"
    /\ t - fs.lastChar >= MESSAGE_TIMEOUT_MS
    /\ fs.lastChar > 0

\* variant: the timeout is checked in every framing state
TimedOut_AnyState(fs, t) ==
    /\ t - fs.lastChar > MESSAGE_TIMEOUT_MS
    /\ fs.lastChar > 0

\* the timeout condition at the head of analysisLoop
TimedOut(fs, t) ==
    /\ fs.receivingState = "RECEIVING"
    /\ t - fs.lastChar > MESSAGE_TIMEOUT_MS
    /\ fs.lastChar > 0

\* variant: a timed-out session is reset without a log entry
AfterTimeoutCheck_Silent(fs, t) ==
    IF TimedOut(fs, t)
    THEN [ fs EXCEPT !.receivingState = "IDLE", !.buffer = <<>>, !.lastChar = 0 ]
    ELSE fs

\* the head of analysisLoop
AfterTimeoutCheck(fs, t) ==
    IF TimedOut(fs, t) THEN handleDecodingError(fs, Reason_Timeout, fs.buffer) ELSE fs

\* the AGC update of the noise estimate (hundredths), gated on the captured threshold
NextAmbient(ambient, frame, capturedThreshold) ==
    IF frame.peak < capturedThreshold
    THEN (ambient * (100 - AGC_NOISE_SENSITIVITY_PCT)
            + frame.avg * 100 * AGC_NOISE_SENSITIVITY_PCT) \div 100
    ELSE ambient

Min2(a, b) == IF a < b THEN a ELSE b
Max2(a, b) == IF a > b THEN a ELSE b

\* variant: the fraction is cut off instead of rounded
NewThreshold_Truncated(ambient) ==
    Max2(MIN_DETECTION_THRESHOLD * 100,
         Min2(MAX_DETECTION_THRESHOLD * 100, ambient + AGC_THRESHOLD_OFFSET * 100)) \div 100

\* Math.round(Math.max(MIN, Math.min(MAX, ambient + OFFSET)))
NewThreshold(ambient) ==
    (Max2(MIN_DETECTION_THRESHOLD * 100,
          Min2(MAX_DETECTION_THRESHOLD * 100, ambient + AGC_THRESHOLD_OFFSET * 100)) + 50) \div 100

\* the token handed to processDecodedChar in this frame, NoValue when none is
Delivered(frame, decoderState, newThreshold) ==
    IF decoderState = "WAITING_FOR_TONE" /\ frame.peak > newThreshold
    THEN frame.tone
    ELSE NoValue

\* variant: any frame re-arms the decoder
NextDecoder_RearmAlways(frame, decoderState, newThreshold) ==
    IF decoderState = "WAITING_FOR_TONE"
    THEN IF Delivered(frame, decoderState, newThreshold) # NoValue
         THEN "WAITING_FOR_SILENCE" ELSE "WAITING_FOR_TONE"
    ELSE "WAITING_FOR_TONE"

\* the debounce machine after the frame
NextDecoder(frame, decoderState, newThreshold) ==
    IF decoderState = "WAITING_FOR_TONE"
    THEN IF Delivered(frame, decoderState, newThreshold) # NoValue
         THEN "WAITING_FOR_SILENCE" ELSE "WAITING_FOR_TONE"
    ELSE IF frame.peak < newThreshold THEN "WAITING_FOR_TONE" ELSE "WAITING_FOR_SILENCE"

\* the framing state at the end of the frame
AfterFrame(fs, frame, decoderState, newThreshold, t) ==
    LET fs1  == AfterTimeoutCheck(fs, t)
        char == Delivered(frame, decoderState, newThreshold)
    IN  IF char # NoValue THEN processDecodedChar(fs1, char, t) ELSE fs1

FFT_SIZE == 8192

\* analyser.frequencyBinCount, the length of the spectrum
frequencyBinCount == FFT_SIZE \div 2

\* lhs * (maxAmplitude + 1e-6) > rhs for integers lhs, rhs and maxAmplitude,
\* the 1e-6 being the epsilon added to the divisor of the clarity; lhs stays
\* under 4 000 000 in magnitude for a spectrum of frequencyBinCount bytes
ExceedsWithEpsilon(lhs, maxAmplitude, rhs) ==
    LET gap == rhs - lhs * maxAmplitude
    IN  IF gap >= 4 THEN FALSE
        ELSE IF gap <= 0 - 4 THEN TRUE
        ELSE gap * 1000000 < lhs

\* strength * 0.4 + clarity * 0.6 against 0.7 and 0.4, both sides multiplied by
\* 10 * (255 - threshold) * (dataLength - 1) * (maxAmplitude + 1e-6)
calculateSignalQuality(maxAmplitude, totalAmplitude, threshold, dataLength) ==
    LET headroom == 255 - threshold
        totalOtherAmplitude == totalAmplitude - maxAmplitude
        others == 6 * totalOtherAmplitude * headroom
        good == (4 * (maxAmplitude - threshold) - headroom) * (dataLength - 1)
        fair == (4 * (maxAmplitude - threshold) + 2 * headroom) * (dataLength - 1)
    IN  IF ExceedsWithEpsilon(good, maxAmplitude, others) THEN "good"
        ELSE IF ExceedsWithEpsilon(fair, maxAmplitude, others) THEN "fair"
        ELSE "poor"

\* variant: a peak exactly at the threshold already gets a label
signalQualityOf_AtThreshold(frame, newThreshold) ==
    IF frame.peak >= newThreshold
    THEN calculateSignalQuality(frame.peak, frame.avg * frequencyBinCount, newThreshold,
                                frequencyBinCount)
    ELSE "none"

\* the label analysisLoop passes to setSignalQuality
signalQualityOf(frame, newThreshold) ==
    IF frame.peak > newThreshold
    THEN calculateSignalQuality(frame.peak, frame.avg * frequencyBinCount, newThreshold,
                                frequencyBinCount)
    ELSE "none"

\* history record: the step was not an analysis frame
NoFrame == [ op |-> "other", token |-> NoValue, timedOut |-> FALSE, wasReceiving |-> FALSE,
             level |-> "none", heard |-> NoValue, quality |-> "none" ]

\* the frame's peak against the threshold computed in the same frame
Level(frame, newThreshold) ==
    IF frame.peak > newThreshold THEN "above"
    ELSE IF frame.peak < newThreshold THEN "below" ELSE "at"

\* history record of a frame: the token it delivered, the token its spectrum
\* shows above the threshold (heard), whether it began with a
\* timeout, whether the framing machine was RECEIVING when the token arrived,
\* and the label it passed to setSignalQuality
FrameRecord(fs, frame, decoderState, newThreshold, t) ==
    [ op           |-> "frame",
      token        |-> Delivered(frame, decoderState, newThreshold),
      timedOut     |-> TimedOut(fs, t),
      wasReceiving |-> /\ Delivered(frame, decoderState, newThreshold) # NoValue
                       /\ AfterTimeoutCheck(fs, t).receivingState = "RECEIVING",
      level        |-> Level(frame, newThreshold),
      heard        |-> IF frame.peak > newThreshold THEN frame.tone ELSE NoValue,
      quality      |-> signalQualityOf(frame, newThreshold) ]

\* requestAnimationFrame(analysisLoop): one more callback is pending
requestAnimationFrame ==
    /\ pendingFrames' = pendingFrames + 1
    /\ frameScheduled' = TRUE

\* cancelAnimationFrame(animationFrameIdRef.current): the callback scheduled
\* last is withdrawn, any other stays pending
cancelAnimationFrame ==
    /\ pendingFrames' = IF pendingFrames > 0 THEN pendingFrames - 1 ELSE 0
    /\ frameScheduled' = (pendingFrames > 1)

\* streamRef.current?.getTracks().forEach(track => track.stop())
stopTracks ==
    liveStreams' = IF streamRef THEN liveStreams - 1 ELSE liveStreams

\* one run of the requestAnimationFrame callback over a frame
analysisLoopStep(frame) ==
    /\ frameScheduled
    /\ IF ~analyserRef \/ ~audioContextRef
       THEN /\ pendingFrames' = pendingFrames - 1
            /\ frameScheduled' = (pendingFrames > 1)
            /\ lastFrame' = NoFrame
            /\ UNCHANGED <<isListening, streamRef, audioContextRef, analyserRef, sourceRef,
                           liveStreams, startPending, mounted, receiverVars, agcVars, decodedMessages>>
       ELSE LET ambient      == NextAmbient(ambientNoiseLevelRef, frame, loopThreshold)
                newThreshold == NewThreshold(ambient)
                fs == AfterFrame(FramingState, frame, decoderStateRef, newThreshold, now)
            IN  /\ ambientNoiseLevelRef' = ambient
                /\ currentThreshold' = newThreshold
                /\ receivingStateRef' = fs.receivingState
                /\ currentMessageBufferRef' = fs.buffer
                /\ lastCharTimestampRef' = fs.lastChar
                /\ decodedMessages' = fs.log
                /\ decoderStateRef' = NextDecoder(frame, decoderStateRef, newThreshold)
                /\ silenceFramesCounterRef' = 0
                /\ lastFrame' = FrameRecord(FramingState, frame, decoderStateRef, newThreshold, now)
                /\ UNCHANGED <<resourceVars, loopThreshold>>

analysisLoop(frame) ==
    /\ analysisLoopStep(frame)
    /\ UNCHANGED <<now, senderVars, probe>>

\* startListening with getUserMedia resolving (granted) or rejecting
startListening(granted) ==
    /\ ~isListening
    /\ IF granted
       THEN /\ streamRef' = TRUE
            /\ liveStreams' = liveStreams + 1
            /\ audioContextRef' = TRUE
            /\ analyserRef' = TRUE
            /\ sourceRef' = TRUE
            /\ isListening' = TRUE
            /\ receivingStateRef' = "IDLE"
            /\ decoderStateRef' = "WAITING_FOR_TONE"
            /\ currentMessageBufferRef' = <<>>
            /\ lastCharTimestampRef' = 0
            /\ silenceFramesCounterRef' = 0
            /\ requestAnimationFrame
            /\ loopThreshold' = currentThreshold
            /\ UNCHANGED <<startPending, mounted>>
       ELSE UNCHANGED <<resourceVars, receiverVars, loopThreshold>>
    /\ lastFrame' = IF granted THEN [ NoFrame EXCEPT !.op = "startListening" ] ELSE NoFrame
    /\ UNCHANGED <<ambientNoiseLevelRef, currentThreshold, decodedMessages, now, senderVars, probe>>

\* variant: the capture is released but the session is left as it was
stopListening_KeepSession ==
    /\ isListening
    /\ cancelAnimationFrame
    /\ stopTracks
    /\ streamRef' = FALSE
    /\ sourceRef' = FALSE
    /\ audioContextRef' = FALSE
    /\ analyserRef' = FALSE
    /\ isListening' = FALSE
    /\ lastFrame' = [ NoFrame EXCEPT
                       !.op = "stopListening",
                       !.wasReceiving = /\ receivingStateRef = "RECEIVING"
                                        /\ currentMessageBufferRef # <<>> ]
    /\ UNCHANGED <<startPending, mounted, receiverVars, agcVars, decodedMessages,
                   now, senderVars, probe>>

stopListening ==
    /\ isListening
    /\ cancelAnimationFrame
    /\ stopTracks
    /\ streamRef' = FALSE
    /\ sourceRef' = FALSE
    /\ audioContextRef' = FALSE
    /\ analyserRef' = FALSE
    /\ receivingStateRef' = "IDLE"
    /\ decoderStateRef' = "WAITING_FOR_TONE"
    /\ currentMessageBufferRef' = <<>>
    /\ isListening' = FALSE
    /\ lastFrame' = [ NoFrame EXCEPT
                       !.op = "stopListening",
                       !.wasReceiving = /\ receivingStateRef = "RECEIVING"
                                        /\ currentMessageBufferRef # <<>> ]
    /\ UNCHANGED <<startPending, mounted, lastCharTimestampRef, silenceFramesCounterRef,
                   agcVars, decodedMessages, now, senderVars, probe>>

clearDecodedMessages ==
    /\ decodedMessages' = <<>>
    /\ lastFrame' = [ NoFrame EXCEPT !.op = "clearDecodedMessages" ]
    /\ UNCHANGED <<resourceVars, receiverVars, agcVars, now, senderVars, probe>>

\* performance.now() advances
Tick ==
    /\ now + TickMs <= 1 + MaxTicks * TickMs
    /\ now' = now + TickMs
    /\ lastFrame' = NoFrame
    /\ UNCHANGED <<resourceVars, receiverVars, agcVars, decodedMessages, senderVars, probe>>

----------------------------------------------------------------------------
(* Spec: the receiver of useAudioProcessor.ts under arbitrary frames       *)

LoudPeak  == 200                        \* a tone bin, as the repository's tests raise it
QuietPeak == InitialAmbientNoise        \* a frame of steady ambient noise
EdgePeak  == MIN_DETECTION_THRESHOLD    \* a peak exactly at the threshold
NoiseAvg  == InitialAmbientNoise

SpecTones == { Star, Hash, Zero }

Frames ==
    { [peak |-> QuietPeak, avg |-> NoiseAvg, tone |-> NoValue],
      [peak |-> EdgePeak,  avg |-> NoiseAvg, tone |-> Star] }
    \cup { [peak |-> LoudPeak, avg |-> NoiseAvg, tone |-> t] : t \in SpecTones \cup {NoValue} }

\* no pure function has been evaluated yet
NoProbe == [ op |-> "none", input |-> <<>>, found |-> FALSE, output |-> <<>> ]

InitReceiver ==
    /\ isListening = FALSE
    /\ streamRef = FALSE
    /\ audioContextRef = FALSE
    /\ analyserRef = FALSE
    /\ sourceRef = FALSE
    /\ frameScheduled = FALSE
    /\ pendingFrames = 0
    /\ liveStreams = 0
    /\ startPending = 0
    /\ mounted = TRUE
    /\ receivingStateRef = "IDLE"
    /\ decoderStateRef = "WAITING_FOR_TONE"
    /\ currentMessageBufferRef = <<>>
    /\ lastCharTimestampRef = 0
    /\ silenceFramesCounterRef = 0
    /\ ambientNoiseLevelRef = InitialAmbientNoise * 100
    /\ currentThreshold = INITIAL_DETECTION_THRESHOLD
    /\ loopThreshold = INITIAL_DETECTION_THRESHOLD
    /\ decodedMessages = <<>>
    /\ now = 1

\* nothing rendered offline yet
NoWav == [ tokens |-> <<>>, schedule |-> <<>>, length |-> 0, size |-> 0 ]

InitTx ==
    /\ isTransmitting = FALSE
    /\ isSaving = FALSE
    /\ events = <<>>
    /\ wav = NoWav

InitSenderIdle ==
    /\ InitTx
    /\ protocolId = "dtmf_standard"
    /\ message = <<>>
    /\ packet = <<>>
    /\ pos = 0
    /\ phase = "idle"

Init ==
    /\ InitReceiver
    /\ InitSenderIdle
    /\ probe = NoProbe
    /\ lastFrame = NoFrame

Frame ==
    \E frame \in Frames :
        /\ analysisLoop(frame)
        /\ Len(currentMessageBufferRef') <= MaxBuf
        /\ Len(decodedMessages') <= MaxLog

Start == \E granted \in BOOLEAN : startListening(granted)

Next ==
    \/ Frame
    \/ Start
    \/ stopListening
    \/ clearDecodedMessages
    \/ Tick

Spec == Init /\ [][Next]_vars

----------------------------------------------------------------------------
(* Properties of the framing machine (Spec)                                *)

LastEntry == decodedMessages[Len(decodedMessages)]

\* C3: a STOP that arrives in a RECEIVING session whose buffer has odd length
\* appends exactly one entry, status error and text "[Oshibka: Nechetnye dannye]",
\* looks no digit pair up, and leaves the receiver IDLE with an empty buffer.
C3_OddStopReportsOddData ==
    [][ ( /\ lastFrame'.token = Hash
          /\ lastFrame'.wasReceiving
          /\ Len(currentMessageBufferRef) % 2 = 1 )
        => ( /\ decodedMessages' = Append(decodedMessages, Entry(Text_OddData, "error"))
             /\ decodeMessageFromDigits(currentMessageBufferRef).lookups = 0
             /\ receivingStateRef' = "IDLE"
             /\ currentMessageBufferRef' = <<>> ) ]_vars

C3_Witness ==
    /\ lastFrame.token = Hash
    /\ lastFrame.wasReceiving
    /\ Len(decodedMessages) > 0
    /\ LastEntry = Entry(Text_OddData, "error")
    /\ receivingStateRef = "IDLE"
    /\ currentMessageBufferRef = <<>>

TimeoutElapsed ==
    /\ receivingStateRef = "RECEIVING"
    /\ now - lastCharTimestampRef > MESSAGE_TIMEOUT_MS

\* C4 as stated: a frame that finds the session RECEIVING with more than 5000 ms
\* elapsed since the last token appends exactly one "[Taim-aut: <buffer>]" error
\* entry and leaves the state IDLE with an empty buffer, whatever the buffer holds.
C4_Original ==
    [][ ( lastFrame'.op = "frame" /\ TimeoutElapsed )
        => ( /\ decodedMessages' = Append(decodedMessages,
                    Entry(ErrorText(Reason_Timeout, currentMessageBufferRef), "error"))
             /\ receivingStateRef' = "IDLE"
             /\ currentMessageBufferRef' = <<>> ) ]_vars

\* C4 amended: such a frame abandons the session before it looks at its own tone:
\* it appends exactly one "[Taim-aut: <buffer>]" error entry when the buffer is
\* non-empty and nothing when the buffer is empty (only START was received); the
\* buffer is empty afterwards, and the state is IDLE unless the same frame decodes
\* a START tone, which opens a new RECEIVING session.
C4_TimeoutAbandonsSession ==
    [][ ( lastFrame'.op = "frame" /\ TimeoutElapsed )
        => ( /\ lastFrame'.timedOut
             /\ decodedMessages' =
                    IF Len(currentMessageBufferRef) > 0
                    THEN Append(decodedMessages,
                                Entry(ErrorText(Reason_Timeout, currentMessageBufferRef), "error"))
                    ELSE decodedMessages
             /\ currentMessageBufferRef' = <<>>
             /\ receivingStateRef' = IF lastFrame'.token = Star THEN "RECEIVING" ELSE "IDLE" ) ]_vars

C4_Witness ==
    /\ lastFrame.op = "frame"
    /\ lastFrame.timedOut
    /\ lastFrame.token # Star
    /\ Len(decodedMessages) > 0
    /\ LastEntry = Entry(ErrorText(Reason_Timeout, <<Zero>>), "error")
    /\ receivingStateRef = "IDLE"
    /\ currentMessageBufferRef = <<>>

\* C5: while the framing state is IDLE the buffer is empty, and a frame that
\* delivers a token other than START to an IDLE framing machine leaves the buffer
\* empty, the state IDLE and the message log unchanged.
C5_IdleDropsTokens ==
    /\ [](receivingStateRef = "IDLE" => currentMessageBufferRef = <<>>)
    /\ [][ ( /\ receivingStateRef = "IDLE"
             /\ lastFrame'.token # NoValue
             /\ lastFrame'.token # Star )
           => ( /\ currentMessageBufferRef' = <<>>
                /\ receivingStateRef' = "IDLE"
                /\ decodedMessages' = decodedMessages ) ]_vars

\* a digit delivered to the IDLE machine after an earlier session timed out
C5_Witness ==
    /\ IsDigit(lastFrame.token)
    /\ ~lastFrame.wasReceiving
    /\ ~lastFrame.timedOut
    /\ receivingStateRef = "IDLE"
    /\ currentMessageBufferRef = <<>>
    /\ Len(decodedMessages) = 1
    /\ LastEntry = Entry(ErrorText(Reason_Timeout, <<Zero>>), "error")

C7_StopWithoutPayload ==
    [][ ( /\ lastFrame'.token = Hash
          /\ (receivingStateRef = "IDLE" \/ Len(currentMessageBufferRef) = 0) )
        => ( /\ decodedMessages' = decodedMessages
             /\ receivingStateRef' = "IDLE"
             /\ currentMessageBufferRef' = <<>> ) ]_vars

C7_Witness ==
    /\ lastFrame.token = Hash
    /\ ~lastFrame.wasReceiving
    /\ ~lastFrame.timedOut
    /\ decodedMessages = <<>>
    /\ receivingStateRef = "IDLE"
    /\ currentMessageBufferRef = <<>>

----------------------------------------------------------------------------
(* Sender: protocol table, payload filter and packet assembly              *)

\* String.prototype.toLowerCase on the Latin and Cyrillic blocks
toLowerCase(c) ==
    IF c \in 65..90 THEN c + 32
    ELSE IF c \in 1040..1071 THEN c + 32
    ELSE IF c \in 1024..1039 THEN c + 80
    ELSE c

\* message.toLowerCase().split('').map(char => TEXT_ENCODING_MAP.get(char) || '').join('')
EncodeText(msg) ==
    Flatten([ i \in 1..Len(msg) |->
                IF toLowerCase(msg[i]) \in DOMAIN TEXT_ENCODING_MAP
                THEN TEXT_ENCODING_MAP[toLowerCase(msg[i])]
                ELSE <<>> ])

baseDtmfTransform(msg) == <<Star>> \o EncodeText(msg) \o <<Hash>>

\* encoded.split('').map(digit => digit + digit).join('')
DuplicateDigits(encoded) == Flatten([ i \in 1..Len(encoded) |-> <<encoded[i], encoded[i]>> ])

reliableTransform(msg) == <<Star>> \o DuplicateDigits(EncodeText(msg)) \o <<Hash>>

\* the DTMF protocols of constants.ts and the text_to_dtmf protocol the sender filters for
PROTOCOLS ==
    [ dtmf_standard    |-> [ toneDuration |-> 150, pauseDuration |-> 100, transform |-> "base" ],
      dtmf_fast        |-> [ toneDuration |-> 100, pauseDuration |-> 60,  transform |-> "base" ],
      dtmf_ultra_fast  |-> [ toneDuration |-> 70,  pauseDuration |-> 35,  transform |-> "base" ],
      dtmf_reliable    |-> [ toneDuration |-> 200, pauseDuration |-> 120, transform |-> "duplicate" ],
      dtmf_quiet       |-> [ toneDuration |-> 300, pauseDuration |-> 200, transform |-> "base" ],
      dtmf_ultra_quiet |-> [ toneDuration |-> 500, pauseDuration |-> 350, transform |-> "base" ],
      custom           |-> [ toneDuration |-> 150, pauseDuration |-> 100, transform |-> "base" ],
      text_to_dtmf     |-> [ toneDuration |-> 150, pauseDuration |-> 100, transform |-> "base" ] ]

ProtocolIds == DOMAIN PROTOCOLS

\* protocol.transform(message)
transform(id, msg) ==
    IF PROTOCOLS[id].transform = "duplicate" THEN reliableTransform(msg) ELSE baseDtmfTransform(msg)

\* keys of CHAR_TO_FREQ_MAP_DTMF
DtmfMapKeys == Range(DTMF_CHARACTERS)

isCharSupported(char, id) ==
    IF id = "text_to_dtmf"
    THEN toLowerCase(char) \in DOMAIN TEXT_ENCODING_MAP /\ char \notin {Star, Hash}
    ELSE char \in DtmfMapKeys

getTransmissionPayload(msg, id) == SelectSeq(msg, LAMBDA char : isCharSupported(char, id))

\* playMessage: the token list of a protocol with customPacketHandling
transmissionTokens(payload, id) == transform(id, payload)

\* handleTransmit: nothing for an empty message, abort on an empty payload,
\* otherwise hand the payload to playMessage
handleTransmit ==
    /\ phase = "typed"
    /\ isListening
    /\ LET payload == getTransmissionPayload(message, protocolId)
       IN  IF message = <<>> \/ payload = <<>>
           THEN /\ phase' = "aborted"
                /\ UNCHANGED packet
           ELSE /\ phase' = "tone"
                /\ packet' = transmissionTokens(payload, protocolId)
    /\ pos' = 0
    /\ lastFrame' = NoFrame
    /\ UNCHANGED <<resourceVars, receiverVars, agcVars, decodedMessages, now,
                   protocolId, message, txVars, probe>>

----------------------------------------------------------------------------
(* SpecRoundTrip: a packet played token by token into the listening        *)
(* receiver; each token is one frame of tone followed by one frame of      *)
(* silence, the clock advancing by the protocol's tone and pause durations *)

TestNoise == 20     \* the level the repository's tests fill a silent spectrum with

ToneFrame(token) == [ peak |-> LoudPeak, avg |-> TestNoise, tone |-> token ]
SilentFrame      == [ peak |-> TestNoise, avg |-> TestNoise, tone |-> NoValue ]

PlayTone ==
    /\ phase = "tone"
    /\ analysisLoopStep(ToneFrame(packet[pos + 1]))
    /\ now' = now + PROTOCOLS[protocolId].toneDuration
    /\ phase' = "pause"
    /\ UNCHANGED <<protocolId, message, packet, pos, txVars, probe>>

PlayPause ==
    /\ phase = "pause"
    /\ analysisLoopStep(SilentFrame)
    /\ now' = now + PROTOCOLS[protocolId].pauseDuration
    /\ pos' = pos + 1
    /\ phase' = IF pos + 1 = Len(packet) THEN "done" ELSE "tone"
    /\ UNCHANGED <<protocolId, message, packet, txVars, probe>>

Listen == startListening(TRUE)

\* characters typed into the sender: Cyrillic t, e, s, capital T, and the digit 1
MsgChars == { 1090, 1077, 1089, 1058, 49 }

\* digits of hand-made packets fed to the receiver
RawDigits == { Zero, Zero + 7, Zero + 9 }

\* the packet the repository's test feeds for the message "test" (in Cyrillic)
TestVector == << 49, 57, 48, 52, 49, 56, 49, 57 >>

RawPackets ==
    { <<Star>> \o d \o <<Hash>> : d \in SeqOver(RawDigits, MaxMsgLen) \cup { TestVector } }

InitRoundTrip ==
    /\ InitReceiver
    /\ InitTx
    /\ probe = NoProbe
    /\ lastFrame = NoFrame
    /\ pos = 0
    /\ \/ /\ phase = "typed"
          /\ protocolId \in ProtocolIds
          /\ message \in SeqOver(MsgChars, MaxMsgLen)
          /\ packet = <<>>
       \/ /\ phase = "tone"
          /\ protocolId = "dtmf_standard"
          /\ message = <<>>
          /\ packet \in RawPackets

NextRoundTrip == Listen \/ handleTransmit \/ PlayTone \/ PlayPause

SpecRoundTrip == InitRoundTrip /\ [][NextRoundTrip]_vars

----------------------------------------------------------------------------
(* SpecCodec: the two maps evaluated on single characters and codes        *)

OtherChars == { Star, Hash, 1058, 65 }      \* characters outside the alphabet
Digits     == { Zero + d : d \in 0..9 }
TwoDigitCodes == { <<a, b>> : a \in Digits, b \in Digits }

\* TEXT_ENCODING_MAP.get(char)
EncodeChar ==
    /\ \E c \in Range(TEXT_PROTOCOL_CHARSET) \cup OtherChars :
          probe' = [ op     |-> "encode",
                     input  |-> <<c>>,
                     found  |-> c \in DOMAIN TEXT_ENCODING_MAP,
                     output |-> IF c \in DOMAIN TEXT_ENCODING_MAP THEN TEXT_ENCODING_MAP[c] ELSE <<>> ]
    /\ UNCHANGED <<resourceVars, receiverVars, agcVars, decodedMessages, now, senderVars, lastFrame>>

\* TEXT_DECODING_MAP.get(code)
DecodeCode ==
    /\ \E code \in TwoDigitCodes \cup { <<d>> : d \in Digits } :
          probe' = [ op     |-> "decode",
                     input  |-> code,
                     found  |-> code \in DOMAIN TEXT_DECODING_MAP,
                     output |-> IF code \in DOMAIN TEXT_DECODING_MAP
                                THEN <<TEXT_DECODING_MAP[code]>> ELSE <<>> ]
    /\ UNCHANGED <<resourceVars, receiverVars, agcVars, decodedMessages, now, senderVars, lastFrame>>

NextCodec == EncodeChar \/ DecodeCode

SpecCodec == Init /\ [][NextCodec]_vars

----------------------------------------------------------------------------
(* Properties of the round trip (SpecRoundTrip)                            *)

Alphabet == Range(TEXT_PROTOCOL_CHARSET)

\* the two-digit codes of an alphabet message, digit by digit
CodesOf(m) == Flatten([ i \in 1..Len(m) |-> TEXT_ENCODING_MAP[m[i]] ])

Framed(digits) == <<Star>> \o digits \o <<Hash>>

Msg_Test  == << 1090, 1077, 1089, 1090 >>    \* "test" in Cyrillic: te, ie, es, te
Msg_Tdst  == << 1090, 1076, 1089, 1090 >>    \* the same with de for ie

\* the whole packet has been played and its message m came out of the sender as
\* '*', the codes of m, '#'
PlayedAsCodes ==
    /\ phase = "done"
    /\ message # <<>>
    /\ Range(message) \subseteq Alphabet
    /\ packet = Framed(CodesOf(message))

RoundTripHolds ==
    PlayedAsCodes =>
        /\ decodedMessages = << Entry(message, "success") >>
        /\ receivingStateRef = "IDLE"
        /\ currentMessageBufferRef = <<>>

C2_ReliableRoundTrip ==
    (phase = "done" /\ message # <<>> /\ protocolId = "dtmf_reliable") =>
        decodedMessages = << Entry(getTransmissionPayload(message, protocolId), "success") >>

\* the digits between '*' and '#' of the packet being played
PacketDigits == SubSeq(packet, 2, Len(packet) - 1)

\* the character a pair of digits stands for: the alphabet character with that
\* code, or the placeholder when no character has it
Stands(pair, char) ==
    IF \E c \in Alphabet : TEXT_ENCODING_MAP[c] = pair
    THEN char \in Alphabet /\ TEXT_ENCODING_MAP[char] = pair
    ELSE char = ReplacementChar

\* C10: a packet whose digit buffer has even non-zero length is always logged as
\* one success entry; its text has half as many characters as the buffer has
\* digits, each pair giving its alphabet character or, for a code outside the
\* alphabet, the single placeholder character.
C10_EvenBufferAlwaysDecodes ==
    (phase = "done" /\ Len(PacketDigits) > 0 /\ Len(PacketDigits) % 2 = 0) =>
        /\ Len(decodedMessages) = 1
        /\ decodedMessages[1].status = "success"
        /\ Len(decodedMessages[1].text) = Len(PacketDigits) \div 2
        /\ \A i \in 1..(Len(PacketDigits) \div 2) :
              Stands(<< PacketDigits[2 * i - 1], PacketDigits[2 * i] >>, decodedMessages[1].text[i])

C10_Witness ==
    /\ phase = "done"
    /\ packet = Framed(<< Zero, Zero, Zero + 9, Zero + 9 >>)
    /\ decodedMessages = << Entry(<< 1072, ReplacementChar >>, "success") >>

----------------------------------------------------------------------------
(* Properties of the codec (SpecCodec)                                     *)

\* 0-based position of an alphabet character in alphabet order
AlphabetIndex(c) == (CHOOSE i \in 1..Len(TEXT_PROTOCOL_CHARSET) : TEXT_PROTOCOL_CHARSET[i] = c) - 1

\* value of a two-digit decimal string
DecimalValue(code) == (code[1] - Zero) * 10 + (code[2] - Zero)

\* C9: the encoding map sends each alphabet character to exactly two decimal
\* digits, the 0-based position of the character in alphabet order (codes start
\* at 00); the decoding map is its inverse, so the two maps are a bijection
\* between the alphabet and the codes 00..73, and nothing else has a code.
C9_CodecIsBijection ==
    /\ (probe.op = "encode" /\ probe.input[1] \in Alphabet) =>
          /\ probe.found
          /\ Len(probe.output) = 2
          /\ Range(probe.output) \subseteq Digits
          /\ DecimalValue(probe.output) = AlphabetIndex(probe.input[1])
          /\ probe.output \in DOMAIN TEXT_DECODING_MAP
          /\ TEXT_DECODING_MAP[probe.output] = probe.input[1]
    /\ (probe.op = "encode" /\ probe.input[1] \notin Alphabet) => ~probe.found
    /\ probe.op = "decode" =>
          /\ probe.found <=> (Len(probe.input) = 2 /\ DecimalValue(probe.input) < Len(TEXT_PROTOCOL_CHARSET))
          /\ probe.found => /\ probe.output[1] \in Alphabet
                            /\ TEXT_ENCODING_MAP[probe.output[1]] = probe.input
    /\ Cardinality(Alphabet) = Len(TEXT_PROTOCOL_CHARSET)
    /\ Cardinality(DOMAIN TEXT_DECODING_MAP) = Cardinality(Alphabet)

C9_Witness ==
    /\ probe.op = "encode"
    /\ probe.input = << 63 >>
    /\ probe.found
    /\ probe.output = << Zero + 7, Zero + 3 >>

----------------------------------------------------------------------------
(* The multi-protocol receiver: checksum-framed (FSK) and DTMF-text        *)
(* sessions side by side                                                   *)

START_CHAR == 65536     \* the token '<<START>>' (not a single character)
STOP_CHAR  == 65537     \* the token '<<STOP>>'

\* '0123456789abcdefghijklmnopqrstuvwxyz'.split('')
CHECKSUM_CHAR_CANDIDATES ==
    << 48, 49, 50, 51, 52, 53, 54, 55, 56, 57,
       97, 98, 99, 100, 101, 102, 103, 104, 105, 106, 107, 108, 109, 110, 111,
       112, 113, 114, 115, 116, 117, 118, 119, 120, 121, 122 >>

\* a ^ b on non-negative integers
RECURSIVE BitXor(_, _)
BitXor(a, b) ==
    IF a = 0 THEN b
    ELSE IF b = 0 THEN a
    ELSE (((a % 2) + (b % 2)) % 2) + 2 * BitXor(a \div 2, b \div 2)

\* message.split('').reduce((acc, char) => acc ^ char.charCodeAt(0), 0)
RECURSIVE XorFold(_, _)
XorFold(msg, acc) ==
    IF msg = <<>> THEN acc ELSE XorFold(Tail(msg), BitXor(acc, Head(msg)))

\* variant: the index is taken modulo ten, so only digits are ever returned
calculateChecksum_DigitsOnly(msg) ==
    IF msg = <<>> THEN CHECKSUM_CHAR_CANDIDATES[1]
    ELSE CHECKSUM_CHAR_CANDIDATES[(XorFold(msg, 0) % 10) + 1]

\* variant: the accumulator is doubled before each character is folded in
RECURSIVE RotatingFold(_, _)
RotatingFold(msg, acc) ==
    IF msg = <<>> THEN acc ELSE RotatingFold(Tail(msg), BitXor((2 * acc) % 65536, Head(msg)))

calculateChecksum_Rotating(msg) ==
    IF msg = <<>> THEN CHECKSUM_CHAR_CANDIDATES[1]
    ELSE CHECKSUM_CHAR_CANDIDATES[(RotatingFold(msg, 0) % Len(CHECKSUM_CHAR_CANDIDATES)) + 1]

\* variant: the code units are added instead of XOR-ed
RECURSIVE SumFold(_, _)
SumFold(msg, acc) ==
    IF msg = <<>> THEN acc ELSE SumFold(Tail(msg), acc + Head(msg))

calculateChecksum_Sum(msg) ==
    IF msg = <<>> THEN CHECKSUM_CHAR_CANDIDATES[1]
    ELSE CHECKSUM_CHAR_CANDIDATES[(SumFold(msg, 0) % Len(CHECKSUM_CHAR_CANDIDATES)) + 1]

calculateChecksum(msg) ==
    IF msg = <<>> THEN CHECKSUM_CHAR_CANDIDATES[1]
    ELSE CHECKSUM_CHAR_CANDIDATES[(XorFold(msg, 0) % Len(CHECKSUM_CHAR_CANDIDATES)) + 1]

Text_Corrupt(digitString) ==    \* `[Corrupt: ${digitString}]`
    << 91, 67, 111, 114, 114, 117, 112, 116, 58, 32 >> \o digitString \o << 93 >>

QuestionMark == 63      \* '?', the placeholder of the multi-protocol receiver

\* the '#' branch: pairs of digits through TEXT_DECODING_MAP, '?' for an unknown code
RECURSIVE DecodePairsMulti(_, _)
DecodePairsMulti(digitString, i) ==
    IF i > Len(digitString) THEN <<>>
    ELSE LET decodedChar == MapGet(TEXT_DECODING_MAP, SubSeq(digitString, i, i + 1))
         IN  << IF decodedChar # NoValue THEN decodedChar ELSE QuestionMark >>
             \o DecodePairsMulti(digitString, i + 2)

\* variant: the checksum is recomputed over the whole buffer, checksum character included
processDecodedCharMulti_ChecksumOverPacket(fs, char) ==
    IF char = START_CHAR
    THEN [fs EXCEPT !.receivingState = "FSK", !.buffer = <<>>]
    ELSE IF char = STOP_CHAR
    THEN LET fullReceived == fs.buffer
             payload      == SubSeq(fullReceived, 1, Len(fullReceived) - 1)
             received     == fullReceived[Len(fullReceived)]
         IN  [fs EXCEPT !.receivingState = "IDLE", !.buffer = <<>>,
                        !.log = IF fs.receivingState = "FSK" /\ Len(fullReceived) >= 1
                                THEN Append(fs.log,
                                            Entry(payload,
                                                  IF received = calculateChecksum(fullReceived)
                                                  THEN "success" ELSE "error"))
                                ELSE fs.log]
    ELSE IF char = Star
    THEN [fs EXCEPT !.receivingState = "DTMF_TEXT", !.buffer = <<>>]
    ELSE IF char = Hash
    THEN LET digitString == fs.buffer
         IN  [fs EXCEPT !.receivingState = "IDLE", !.buffer = <<>>,
                        !.log = IF fs.receivingState # "DTMF_TEXT" THEN fs.log
                                ELSE IF Len(digitString) > 0 /\ Len(digitString) % 2 = 0
                                THEN Append(fs.log, Entry(DecodePairsMulti(digitString, 1), "success"))
                                ELSE IF Len(digitString) > 0
                                THEN Append(fs.log, Entry(Text_Corrupt(digitString), "error"))
                                ELSE fs.log]
    ELSE IF fs.receivingState = "FSK"
    THEN [fs EXCEPT !.buffer = Append(fs.buffer, char)]
    ELSE IF fs.receivingState = "DTMF_TEXT" /\ IsDigit(char)
    THEN [fs EXCEPT !.buffer = Append(fs.buffer, char)]
    ELSE fs

\* the framing part of processDecodedChar (it also puts the debounce machine
\* into COOLDOWN, which analysisLoopMulti applies)
processDecodedCharMulti(fs, char) ==
    IF char = START_CHAR
    THEN [fs EXCEPT !.receivingState = "FSK", !.buffer = <<>>]
    ELSE IF char = STOP_CHAR
    THEN LET fullReceived == fs.buffer
             payload      == SubSeq(fullReceived, 1, Len(fullReceived) - 1)
             received     == fullReceived[Len(fullReceived)]
         IN  [fs EXCEPT !.receivingState = "IDLE", !.buffer = <<>>,
                        !.log = IF fs.receivingState = "FSK" /\ Len(fullReceived) >= 1
                                THEN Append(fs.log,
                                            Entry(payload,
                                                  IF received = calculateChecksum(payload)
                                                  THEN "success" ELSE "error"))
                                ELSE fs.log]
    ELSE IF char = Star
    THEN [fs EXCEPT !.receivingState = "DTMF_TEXT", !.buffer = <<>>]
    ELSE IF char = Hash
    THEN LET digitString == fs.buffer
         IN  [fs EXCEPT !.receivingState = "IDLE", !.buffer = <<>>,
                        !.log = IF fs.receivingState # "DTMF_TEXT" THEN fs.log
                                ELSE IF Len(digitString) > 0 /\ Len(digitString) % 2 = 0
                                THEN Append(fs.log, Entry(DecodePairsMulti(digitString, 1), "success"))
                                ELSE IF Len(digitString) > 0
                                THEN Append(fs.log, Entry(Text_Corrupt(digitString), "error"))
                                ELSE fs.log]
    ELSE IF fs.receivingState = "FSK"
    THEN [fs EXCEPT !.buffer = Append(fs.buffer, char)]
    ELSE IF fs.receivingState = "DTMF_TEXT" /\ IsDigit(char)
    THEN [fs EXCEPT !.buffer = Append(fs.buffer, char)]
    ELSE fs

QUIET_FRAMES_TO_IDLE == 3   \* quiet frames that end the cooldown

\* A frame of the multi-protocol receiver: peak and mean magnitude, the smaller
\* of the two DTMF band peaks, the DTMF character whose two frequencies match
\* the band peaks, and the character whose frequency matches the overall peak.
\* The token handed to processDecodedChar: DTMF first, single tone as fallback.
DeliveredMulti(frame, decoderState, newThreshold) ==
    IF decoderState = "IDLE" /\ frame.peak > newThreshold
    THEN IF frame.bands > newThreshold /\ frame.dtmf # NoValue
         THEN frame.dtmf
         ELSE frame.fsk
    ELSE NoValue

\* variant: a frame that is not quiet resets the counter
quietFramesAfter_Reset(frame, newThreshold, quietFramesCount) ==
    IF frame.peak < newThreshold THEN quietFramesCount + 1 ELSE 0

\* the COOLDOWN update of quietFramesCountRef
quietFramesAfter(frame, newThreshold, quietFramesCount) ==
    IF frame.peak < newThreshold
    THEN quietFramesCount + 1
    ELSE Max2(0, quietFramesCount - 1)

analysisLoopMulti(frame) ==
    /\ frameScheduled
    /\ IF ~analyserRef \/ ~audioContextRef
       THEN /\ pendingFrames' = pendingFrames - 1
            /\ frameScheduled' = (pendingFrames > 1)
            /\ lastFrame' = NoFrame
            /\ UNCHANGED <<isListening, streamRef, audioContextRef, analyserRef, sourceRef,
                           liveStreams, startPending, mounted, receiverVars, agcVars, decodedMessages>>
       ELSE LET ambient      == NextAmbient(ambientNoiseLevelRef, frame, loopThreshold)
                newThreshold == NewThreshold(ambient)
                char == DeliveredMulti(frame, decoderStateRef, newThreshold)
                fs   == IF char # NoValue THEN processDecodedCharMulti(FramingState, char)
                        ELSE FramingState
                quiet == quietFramesAfter(frame, newThreshold, silenceFramesCounterRef)
            IN  /\ ambientNoiseLevelRef' = ambient
                /\ currentThreshold' = newThreshold
                /\ receivingStateRef' = fs.receivingState
                /\ currentMessageBufferRef' = fs.buffer
                /\ decodedMessages' = fs.log
                /\ IF decoderStateRef = "IDLE"
                   THEN /\ decoderStateRef' = IF char # NoValue THEN "COOLDOWN" ELSE "IDLE"
                        /\ silenceFramesCounterRef' = IF char # NoValue THEN 0
                                                      ELSE silenceFramesCounterRef
                   ELSE /\ silenceFramesCounterRef' = quiet
                        /\ decoderStateRef' = IF quiet >= QUIET_FRAMES_TO_IDLE
                                              THEN "IDLE" ELSE "COOLDOWN"
                /\ lastFrame' = [ op |-> "frame", token |-> char, timedOut |-> FALSE,
                                  wasReceiving |-> char # NoValue /\ receivingStateRef # "IDLE",
                                  level |-> Level(frame, newThreshold),
                                  heard |-> DeliveredMulti(frame, "IDLE", newThreshold),
                                  quality |-> signalQualityOf(frame, newThreshold) ]
                /\ UNCHANGED <<resourceVars, loopThreshold, lastCharTimestampRef>>
    /\ UNCHANGED <<now, senderVars, probe>>

startListeningMulti(granted) ==
    /\ ~isListening
    /\ IF granted
       THEN /\ streamRef' = TRUE
            /\ liveStreams' = liveStreams + 1
            /\ audioContextRef' = TRUE
            /\ analyserRef' = TRUE
            /\ sourceRef' = TRUE
            /\ isListening' = TRUE
            /\ receivingStateRef' = "IDLE"
            /\ currentMessageBufferRef' = <<>>
            /\ decoderStateRef' = "IDLE"
            /\ silenceFramesCounterRef' = 0
            /\ requestAnimationFrame
            /\ loopThreshold' = currentThreshold
            /\ UNCHANGED <<startPending, mounted>>
            /\ UNCHANGED lastCharTimestampRef
       ELSE UNCHANGED <<resourceVars, receiverVars, loopThreshold>>
    /\ lastFrame' = NoFrame
    /\ UNCHANGED <<ambientNoiseLevelRef, currentThreshold, decodedMessages, now, senderVars, probe>>

stopListeningMulti ==
    /\ isListening
    /\ cancelAnimationFrame
    /\ stopTracks
    /\ streamRef' = FALSE
    /\ sourceRef' = FALSE
    /\ audioContextRef' = FALSE
    /\ analyserRef' = FALSE
    /\ receivingStateRef' = "IDLE"
    /\ currentMessageBufferRef' = <<>>
    /\ decoderStateRef' = "IDLE"
    /\ silenceFramesCounterRef' = 0
    /\ isListening' = FALSE
    /\ lastFrame' = NoFrame
    /\ UNCHANGED <<startPending, mounted, lastCharTimestampRef, agcVars, decodedMessages,
                   now, senderVars, probe>>

----------------------------------------------------------------------------
(* SpecMulti: the multi-protocol receiver under arbitrary frames           *)

MultiTones == { START_CHAR, STOP_CHAR, 97, 112 }    \* the control tokens, 'a' and 'p'

FramesMulti ==
    { [peak |-> QuietPeak, avg |-> NoiseAvg, bands |-> QuietPeak, dtmf |-> NoValue, fsk |-> NoValue] }
    \cup { [peak |-> LoudPeak, avg |-> NoiseAvg, bands |-> QuietPeak, dtmf |-> NoValue, fsk |-> t] :
              t \in MultiTones \cup {NoValue} }
    \cup { [peak |-> LoudPeak, avg |-> NoiseAvg, bands |-> LoudPeak, dtmf |-> d, fsk |-> 97] :
              d \in {Star, Hash} }

InitMulti ==
    /\ isListening = FALSE
    /\ streamRef = FALSE
    /\ audioContextRef = FALSE
    /\ analyserRef = FALSE
    /\ sourceRef = FALSE
    /\ frameScheduled = FALSE
    /\ pendingFrames = 0
    /\ liveStreams = 0
    /\ startPending = 0
    /\ mounted = TRUE
    /\ receivingStateRef = "IDLE"
    /\ decoderStateRef = "IDLE"
    /\ currentMessageBufferRef = <<>>
    /\ lastCharTimestampRef = 0
    /\ silenceFramesCounterRef = 0
    /\ ambientNoiseLevelRef = InitialAmbientNoise * 100
    /\ currentThreshold = INITIAL_DETECTION_THRESHOLD
    /\ loopThreshold = INITIAL_DETECTION_THRESHOLD
    /\ decodedMessages = <<>>
    /\ now = 1
    /\ InitSenderIdle
    /\ probe = NoProbe
    /\ lastFrame = NoFrame

FrameMulti ==
    \E frame \in FramesMulti :
        /\ analysisLoopMulti(frame)
        /\ Len(currentMessageBufferRef') <= MaxBuf
        /\ Len(decodedMessages') <= MaxLog

StartMulti == \E granted \in BOOLEAN : startListeningMulti(granted)

NextMulti == FrameMulti \/ StartMulti \/ stopListeningMulti \/ clearDecodedMessages

SpecMulti == InitMulti /\ [][NextMulti]_vars

----------------------------------------------------------------------------
(* Properties of the checksum-framed session (SpecMulti)                   *)

\* C8: in a checksum-framed session a STOP with a non-empty buffer appends
\* exactly one entry whose text is the buffer without its last character; the
\* entry is a success exactly when that last character is
\* calculateChecksum of the text, and an error otherwise.
C8_StopSplitsPayloadAndChecksum ==
    [][ ( /\ lastFrame'.op = "frame"
          /\ lastFrame'.token = STOP_CHAR
          /\ receivingStateRef = "FSK"
          /\ currentMessageBufferRef # <<>> ) =>
        LET buf     == currentMessageBufferRef
            payload == SubSeq(buf, 1, Len(buf) - 1)
            ok      == buf[Len(buf)] = calculateChecksum(payload)
        IN  /\ Len(decodedMessages') = Len(decodedMessages) + 1
            /\ SubSeq(decodedMessages', 1, Len(decodedMessages)) = decodedMessages
            /\ decodedMessages'[Len(decodedMessages')].text = payload
            /\ ok  => decodedMessages'[Len(decodedMessages')].status = "success"
            /\ ~ok => decodedMessages'[Len(decodedMessages')].status = "error"
      ]_vars

\* 'a' followed by its checksum 'p' was accepted, then 'a' followed by 'a' was rejected
C8_Witness ==
    /\ lastFrame.op = "frame"
    /\ lastFrame.token = STOP_CHAR
    /\ lastFrame.wasReceiving
    /\ decodedMessages = << Entry(<<97>>, "success"), Entry(<<97>>, "error") >>

----------------------------------------------------------------------------
(* SpecChecksum: calculateChecksum evaluated on messages and on            *)
(* rearrangements of messages                                              *)

ChecksumChars == { 97, 98, 1055, 33 }       \* 'a', 'b', Cyrillic capital Pe, '!'

Msg_Privet == << 1055, 1088, 1080, 1074, 1077, 1090, 33 >>   \* the greeting of the service's test
Msg_Poka   == << 1055, 1086, 1082, 1072, 33 >>               \* the farewell of the service's test

ChecksumInputs == SeqOver(ChecksumChars, MaxMsgLen) \cup { Msg_Privet, Msg_Poka }

\* the rearrangements of a message
Rearrangements(m) == { [ i \in 1..Len(m) |-> m[f[i]] ] : f \in Permutations(1..Len(m)) }

InitChecksum ==
    /\ InitReceiver
    /\ InitTx
    /\ protocolId = "standard"
    /\ message \in ChecksumInputs
    /\ packet = <<>>
    /\ pos = 0
    /\ phase = "idle"
    /\ probe = NoProbe
    /\ lastFrame = NoFrame

\* calculateChecksum(message)
Checksum ==
    /\ probe.op = "none"
    /\ probe' = [ op |-> "checksum", input |-> message, found |-> TRUE,
                  output |-> << calculateChecksum(message) >> ]
    /\ UNCHANGED <<resourceVars, receiverVars, agcVars, decodedMessages, now, senderVars, lastFrame>>

\* calculateChecksum of the message and of one of its rearrangements
ChecksumRearranged ==
    /\ probe.op = "none"
    /\ \E p \in Rearrangements(message) :
          probe' = [ op |-> "rearranged", input |-> << message, p >>, found |-> TRUE,
                     output |-> << calculateChecksum(message), calculateChecksum(p) >> ]
    /\ UNCHANGED <<resourceVars, receiverVars, agcVars, decodedMessages, now, senderVars, lastFrame>>

NextChecksum == Checksum \/ ChecksumRearranged

SpecChecksum == InitChecksum /\ [][NextChecksum]_vars

----------------------------------------------------------------------------
(* Properties of the checksum (SpecChecksum)                               *)

C12_Original ==
    \/ probe.op # "rearranged"
    \/ \E m \in ChecksumInputs : \E p \in Rearrangements(m) :
          calculateChecksum(p) # calculateChecksum(m)

\* C12 (amended): the checksum depends on which characters a message holds but
\* not on their order: every rearrangement of a message has the checksum of the
\* message.
C12_ChecksumIgnoresOrder ==
    probe.op = "rearranged" => probe.output[1] = probe.output[2]

\* "ab" and "ba" both give '3'
C12_Witness ==
    /\ probe.op = "rearranged"
    /\ probe.input = << << 97, 98 >>, << 98, 97 >> >>
    /\ probe.output = << Zero + 3, Zero + 3 >>

----------------------------------------------------------------------------
(* The protocol table of the multi-protocol transmitter and its frequency  *)
(* maps. A map value is kept as the tuple of frequencies played together:  *)
(* one frequency for a single-tone map, two for DTMF.                      *)

START_FREQ_SIGNAL == 450
STOP_FREQ_SIGNAL  == 7000

CHARACTERS_LOWER == TEXT_PROTOCOL_CHARS_LOWER

\* the 33 Cyrillic capitals (with Io after Ie) and the 26 Latin capitals
CHARACTERS_UPPER ==
    << 1040, 1041, 1042, 1043, 1044, 1045, 1025, 1046, 1047, 1048, 1049, 1050,
       1051, 1052, 1053, 1054, 1055, 1056, 1057, 1058, 1059, 1060, 1061, 1062,
       1063, 1064, 1065, 1066, 1067, 1068, 1069, 1070, 1071,
       65, 66, 67, 68, 69, 70, 71, 72, 73, 74, 75, 76, 77, 78, 79, 80, 81, 82,
       83, 84, 85, 86, 87, 88, 89, 90 >>

CHARACTERS_OTHER == TEXT_PROTOCOL_CHARS_OTHER

CHARACTERS == CHARACTERS_LOWER \o CHARACTERS_UPPER \o CHARACTERS_OTHER

\* new Map(CHARACTERS.split('').map((char, index) => [char, base + index * step]))
\* followed by set(START_CHAR, START_FREQ_SIGNAL) and set(STOP_CHAR, STOP_FREQ_SIGNAL)
SingleToneMap(base, step) ==
    [ token \in Range(CHARACTERS) \cup { START_CHAR, STOP_CHAR } |->
        IF token = START_CHAR THEN << START_FREQ_SIGNAL >>
        ELSE IF token = STOP_CHAR THEN << STOP_FREQ_SIGNAL >>
        ELSE << base + (SetMax({ i \in 1..Len(CHARACTERS) : CHARACTERS[i] = token }) - 1) * step >> ]

START_FREQ_STD   == 2000
STEP_FREQ_STD    == 40
START_FREQ_QUIET == 8000
STEP_FREQ_QUIET  == 50

CHAR_TO_FREQ_MAP_STD   == SingleToneMap(START_FREQ_STD, STEP_FREQ_STD)
CHAR_TO_FREQ_MAP_QUIET == SingleToneMap(START_FREQ_QUIET, STEP_FREQ_QUIET)

DTMF_LOW_FREQS  == << 697, 770, 852, 941 >>
DTMF_HIGH_FREQS == << 1209, 1336, 1477 >>

\* the keypad: '1','2','3' on the first row, ..., '*','0','#' on the last
DTMF_FREQUENCIES ==
    [ c \in Range(DTMF_CHARACTERS) |->
        LET k == CHOOSE i \in 1..Len(DTMF_CHARACTERS) : DTMF_CHARACTERS[i] = c
        IN  << DTMF_LOW_FREQS[((k - 1) \div 3) + 1], DTMF_HIGH_FREQS[((k - 1) % 3) + 1] >> ]

CHAR_TO_FREQ_MAP_DTMF ==
    [ token \in Range(DTMF_CHARACTERS) \cup { START_CHAR, STOP_CHAR } |->
        IF token = START_CHAR THEN << START_FREQ_SIGNAL >>
        ELSE IF token = STOP_CHAR THEN << STOP_FREQ_SIGNAL >>
        ELSE DTMF_FREQUENCIES[token] ]

CustomBaseFreq == 1000      \* default of customBaseFreq
CustomStepFreq == 50        \* default of customStepFreq

\* PROTOCOLS of the multi-protocol constants
PROTOCOL_TABLE ==
    [ standard     |-> [ toneDuration |-> 150, pauseDuration |-> 75,  charToFreqMap |-> "std",
                         customPacketHandling |-> FALSE, transform |-> "none" ],
      text_to_dtmf |-> [ toneDuration |-> 150, pauseDuration |-> 100, charToFreqMap |-> "dtmf",
                         customPacketHandling |-> TRUE,  transform |-> "text" ],
      dtmf         |-> [ toneDuration |-> 150, pauseDuration |-> 100, charToFreqMap |-> "dtmf",
                         customPacketHandling |-> FALSE, transform |-> "none" ],
      fast         |-> [ toneDuration |-> 120, pauseDuration |-> 60,  charToFreqMap |-> "std",
                         customPacketHandling |-> FALSE, transform |-> "none" ],
      ultra_fast   |-> [ toneDuration |-> 80,  pauseDuration |-> 40,  charToFreqMap |-> "std",
                         customPacketHandling |-> FALSE, transform |-> "none" ],
      reliable     |-> [ toneDuration |-> 200, pauseDuration |-> 100, charToFreqMap |-> "std",
                         customPacketHandling |-> FALSE, transform |-> "double" ],
      quiet        |-> [ toneDuration |-> 150, pauseDuration |-> 75,  charToFreqMap |-> "quiet",
                         customPacketHandling |-> FALSE, transform |-> "none" ],
      custom       |-> [ toneDuration |-> 150, pauseDuration |-> 75,  charToFreqMap |-> "custom",
                         customPacketHandling |-> FALSE, transform |-> "none" ] ]

TableIds == DOMAIN PROTOCOL_TABLE

\* the map the sender builds from the default base and step frequencies
customMap == SingleToneMap(CustomBaseFreq, CustomStepFreq)

\* currentProtocol.charToFreqMap: the table's map, or for 'custom' the map the
\* sender builds from the base and step frequencies
charToFreqMap(id) ==
    LET kind == PROTOCOL_TABLE[id].charToFreqMap
    IN  IF kind = "std" THEN CHAR_TO_FREQ_MAP_STD
        ELSE IF kind = "quiet" THEN CHAR_TO_FREQ_MAP_QUIET
        ELSE IF kind = "dtmf" THEN CHAR_TO_FREQ_MAP_DTMF
        ELSE customMap

\* freqsValue ? (Array.isArray(freqsValue) ? freqsValue : [freqsValue]) : []
freqsArray(id, token) ==
    LET map == charToFreqMap(id)
    IN  IF token \in DOMAIN map /\ map[token] # << 0 >> THEN map[token] ELSE <<>>

----------------------------------------------------------------------------
(* SpecFreqMaps: a token looked up in the selected protocol's map          *)

LookupTokens == Range(CHARACTERS) \cup Range(DTMF_CHARACTERS) \cup { START_CHAR, STOP_CHAR }

InitFreqMaps ==
    /\ InitReceiver
    /\ InitTx
    /\ protocolId \in TableIds
    /\ message = <<>>
    /\ packet = <<>>
    /\ pos = 0
    /\ phase = "idle"
    /\ probe = NoProbe
    /\ lastFrame = NoFrame

\* charToFreqMap.get(token)
LookupFrequency ==
    /\ probe.op = "none"
    /\ \E token \in LookupTokens :
          probe' = [ op |-> "freq", input |-> << token >>,
                     found |-> token \in DOMAIN charToFreqMap(protocolId),
                     output |-> freqsArray(protocolId, token) ]
    /\ UNCHANGED <<resourceVars, receiverVars, agcVars, decodedMessages, now, senderVars, lastFrame>>

NextFreqMaps == LookupFrequency

SpecFreqMaps == InitFreqMaps /\ [][NextFreqMaps]_vars

----------------------------------------------------------------------------
(* Properties of the frequency maps (SpecFreqMaps)                         *)

\* C14 as stated: in the single-tone maps (standard, quiet, custom with base
\* 1000 Hz and step 50 Hz) no payload character has the START frequency or the
\* STOP frequency, and no two tokens of one map share a frequency.
C14_NoFrequencyCollision ==
    (probe.op = "freq" /\ probe.found /\ protocolId \in { "standard", "quiet", "custom" }) =>
        LET map   == charToFreqMap(protocolId)
            token == probe.input[1]
        IN  /\ token \notin { START_CHAR, STOP_CHAR } =>
                  probe.output \notin { << START_FREQ_SIGNAL >>, << STOP_FREQ_SIGNAL >> }
            /\ \A other \in DOMAIN map \ { token } : map[other] # probe.output

\* C15 as stated: under every protocol that uses the shared framing, every
\* checksum candidate has an entry in the protocol's frequency map.
C15_ChecksumHasFrequency ==
    ( /\ probe.op = "freq"
      /\ ~PROTOCOL_TABLE[protocolId].customPacketHandling
      /\ probe.input[1] \in Range(CHECKSUM_CHAR_CANDIDATES) ) =>
        /\ probe.found
        /\ probe.output # <<>>

----------------------------------------------------------------------------
(* The multi-protocol transmitter: sender handlers, the live path          *)
(* (playMessage) and the offline path (generateMessageWav)                 *)

\* variant: the 'reliable' transform sends every character once
transformMulti_Once(id, msg) ==
    IF PROTOCOL_TABLE[id].transform = "text" THEN baseDtmfTransform(msg)
    ELSE msg

\* protocol.transform ? protocol.transform(message) : message
transformMulti(id, msg) ==
    IF PROTOCOL_TABLE[id].transform = "double"
    THEN Flatten([ i \in 1..Len(msg) |-> << msg[i], msg[i] >> ])
    ELSE IF PROTOCOL_TABLE[id].transform = "text" THEN baseDtmfTransform(msg)
    ELSE msg

\* variant: the shared framing leaves the checksum character out
playMessageTokens_NoChecksum(msg, id) ==
    IF PROTOCOL_TABLE[id].customPacketHandling
    THEN transformMulti(id, msg)
    ELSE << START_CHAR >> \o transformMulti(id, msg) \o << STOP_CHAR >>

\* transmissionTokens of playMessage
playMessageTokens(msg, id) ==
    IF PROTOCOL_TABLE[id].customPacketHandling
    THEN transformMulti(id, msg)
    ELSE LET transformedMessage == transformMulti(id, msg)
         IN  << START_CHAR >> \o transformedMessage
               \o << calculateChecksum(transformedMessage) >> \o << STOP_CHAR >>

\* transmissionTokens of generateMessageWav
generateMessageWavTokens(msg, id) ==
    IF PROTOCOL_TABLE[id].customPacketHandling
    THEN transformMulti(id, msg)
    ELSE LET transformedMessage == transformMulti(id, msg)
         IN  << START_CHAR >> \o transformedMessage
               \o << calculateChecksum(transformedMessage) >> \o << STOP_CHAR >>

INITIAL_PAUSE_MS == 1000    \* initialPauseSeconds = 1
SAMPLE_RATE      == 44100
WAV_HEADER_BYTES == 44

\* the pause the sender passes along: the selected protocol's own
pauseDurationOf(id) == PROTOCOL_TABLE[id].pauseDuration

\* the loop of generateMessageWav: one slot per token, oscillators only for a
\* token with frequencies, currentTime advanced by toneDuration + pauseDuration
RECURSIVE ScheduleFrom(_, _, _)
ScheduleFrom(tokens, id, currentTime) ==
    IF tokens = <<>> THEN <<>>
    ELSE << [ token |-> Head(tokens),
              freqs |-> freqsArray(id, Head(tokens)),
              start |-> currentTime,
              dur   |-> IF freqsArray(id, Head(tokens)) # <<>>
                        THEN PROTOCOL_TABLE[id].toneDuration ELSE 0 ] >>
         \o ScheduleFrom(Tail(tokens), id,
                         currentTime + PROTOCOL_TABLE[id].toneDuration + pauseDurationOf(id))

\* Math.ceil(sampleRate * totalDurationSeconds), durations kept in ms
BufferLength(tokens, id) ==
    LET totalMs == Len(tokens) * (PROTOCOL_TABLE[id].toneDuration + pauseDurationOf(id))
                   + INITIAL_PAUSE_MS
    IN  (SAMPLE_RATE * totalMs + 999) \div 1000

\* bufferToWav: one channel, two bytes a sample, after the header
bufferToWavSize(length) == length * 2 + WAV_HEADER_BYTES

\* generateMessageWav(message, volume, protocol, pauseDuration)
generateMessageWav(msg, id) ==
    LET tokens == generateMessageWavTokens(msg, id)
    IN  [ tokens   |-> tokens,
          schedule |-> ScheduleFrom(tokens, id, INITIAL_PAUSE_MS),
          length   |-> BufferLength(tokens, id),
          size     |-> bufferToWavSize(BufferLength(tokens, id)) ]

\* variant: every character counts as supported
isCharSupportedMulti_Everything(char, id) == TRUE

\* isCharSupported(char, protocol)
isCharSupportedMulti(char, id) ==
    IF id = "text_to_dtmf"
    THEN toLowerCase(char) \in DOMAIN TEXT_ENCODING_MAP /\ char \notin {Star, Hash}
    ELSE char \in DOMAIN charToFreqMap(id)

\* getTransmissionPayload(msg, protocol)
getTransmissionPayloadMulti(msg, id) ==
    SelectSeq(msg, LAMBDA char : isCharSupportedMulti(char, id))

\* variant: the index passed to onProgress counts from one
progressCall_OneBased(i, tokens, id, t) ==
    [ kind  |-> "progress", index |-> i + 1, total |-> Len(tokens), token |-> tokens[i + 1],
      freq  |-> IF freqsArray(id, tokens[i + 1]) # <<>> THEN freqsArray(id, tokens[i + 1])[1]
                ELSE NoValue,
      at    |-> t, dur |-> 0 ]

\* onProgress(i, transmissionTokens.length, token, first frequency or null)
progressCall(i, tokens, id, t) ==
    [ kind  |-> "progress", index |-> i, total |-> Len(tokens), token |-> tokens[i + 1],
      freq  |-> IF freqsArray(id, tokens[i + 1]) # <<>> THEN freqsArray(id, tokens[i + 1])[1]
                ELSE NoValue,
      at    |-> t, dur |-> 0 ]

\* onProgress(null, transmissionTokens.length, null, null)
finalProgressCall(tokens, t) ==
    [ kind |-> "progress", index |-> NoValue, total |-> Len(tokens), token |-> NoValue,
      freq |-> NoValue, at |-> t, dur |-> 0 ]

\* history record of a sender handler
HandlerRecord(name) == [ NoFrame EXCEPT !.op = name ]

\* handleTransmit up to its first await: nothing for an empty message; an empty
\* payload cancels the transmission; otherwise playMessage builds its tokens
handleTransmitMulti ==
    /\ phase = "typed"
    /\ ~(isTransmitting \/ isSaving)
    /\ LET payload == getTransmissionPayloadMulti(message, protocolId)
       IN  IF message = <<>> \/ payload = <<>>
           THEN /\ phase' = "aborted"
                /\ isTransmitting' = FALSE
                /\ UNCHANGED packet
           ELSE /\ phase' = "progress"
                /\ isTransmitting' = TRUE
                /\ packet' = playMessageTokens(payload, protocolId)
    /\ pos' = 0
    /\ lastFrame' = HandlerRecord("handleTransmit")
    /\ UNCHANGED <<resourceVars, receiverVars, agcVars, decodedMessages, now,
                   protocolId, message, isSaving, events, wav, probe>>

\* playMessage called with an already filtered message, as the connection
\* test of the sender does
playMessage ==
    /\ phase = "direct"
    /\ ~(isTransmitting \/ isSaving)
    /\ message = getTransmissionPayloadMulti(message, protocolId)
    /\ packet' = playMessageTokens(message, protocolId)
    /\ pos' = 0
    /\ phase' = "progress"
    /\ lastFrame' = HandlerRecord("playMessage")
    /\ UNCHANGED <<resourceVars, receiverVars, agcVars, decodedMessages, now,
                   protocolId, message, txVars, probe>>

\* one turn of the loop up to its first await: onProgress, then either the tone
\* starts (playTones) or, for a token without frequencies, the pause timer
PlayToken ==
    /\ phase = "progress"
    /\ LET token == packet[pos + 1]
           freqs == freqsArray(protocolId, token)
           call  == progressCall(pos, packet, protocolId, now)
       IN  IF freqs # <<>>
           THEN /\ events' = events \o << call,
                                  [ call EXCEPT !.kind = "tone",
                                                !.dur = PROTOCOL_TABLE[protocolId].toneDuration ] >>
                /\ phase' = "tone"
           ELSE /\ events' = Append(events, call)
                /\ phase' = "pause"
    /\ lastFrame' = NoFrame
    /\ UNCHANGED <<resourceVars, receiverVars, agcVars, decodedMessages, now,
                   protocolId, message, packet, pos, isTransmitting, isSaving, wav, probe>>

\* oscillators[0].onended: the tone has lasted toneDuration, the pause timer starts
ToneEnded ==
    /\ phase = "tone"
    /\ now' = now + PROTOCOL_TABLE[protocolId].toneDuration
    /\ phase' = "pause"
    /\ lastFrame' = NoFrame
    /\ UNCHANGED <<resourceVars, receiverVars, agcVars, decodedMessages,
                   protocolId, message, packet, pos, txVars, probe>>

\* the pause timer fires: next token, or after the last token the closing
\* onProgress call and, for the sender's handler, its epilogue
PauseElapsed ==
    /\ phase = "pause"
    /\ now' = now + pauseDurationOf(protocolId)
    /\ pos' = pos + 1
    /\ LET pause == [ kind |-> "pause", index |-> pos, total |-> Len(packet),
                      token |-> packet[pos + 1], freq |-> NoValue,
                      at |-> now, dur |-> pauseDurationOf(protocolId) ]
       IN  IF pos + 1 < Len(packet)
           THEN /\ events' = Append(events, pause)
                /\ phase' = "progress"
                /\ UNCHANGED <<message, isTransmitting>>
           ELSE /\ events' = events \o << pause, finalProgressCall(packet, now') >>
                /\ phase' = IF isTransmitting THEN "sent" ELSE "done"
                /\ message' = IF isTransmitting THEN <<>> ELSE message
                /\ isTransmitting' = FALSE
    /\ lastFrame' = NoFrame
    /\ UNCHANGED <<resourceVars, receiverVars, agcVars, decodedMessages,
                   protocolId, packet, isSaving, wav, probe>>

\* handleSave up to its await: same cancellation; otherwise generateMessageWav
\* schedules the tokens and starts rendering
handleSaveMulti ==
    /\ phase = "typed"
    /\ ~(isTransmitting \/ isSaving)
    /\ LET payload == getTransmissionPayloadMulti(message, protocolId)
       IN  IF message = <<>> \/ payload = <<>>
           THEN /\ phase' = "aborted"
                /\ isSaving' = FALSE
                /\ UNCHANGED wav
           ELSE /\ phase' = "rendering"
                /\ isSaving' = TRUE
                /\ wav' = [ generateMessageWav(payload, protocolId) EXCEPT !.size = 0 ]
    /\ lastFrame' = HandlerRecord("handleSave")
    /\ UNCHANGED <<resourceVars, receiverVars, agcVars, decodedMessages, now,
                   protocolId, message, packet, pos, isTransmitting, events, probe>>

\* startRendering resolves: the blob is built and downloaded, the message cleared
RenderingDone ==
    /\ phase = "rendering"
    /\ wav' = [ wav EXCEPT !.size = bufferToWavSize(wav.length) ]
    /\ message' = <<>>
    /\ isSaving' = FALSE
    /\ phase' = "saved"
    /\ lastFrame' = NoFrame
    /\ UNCHANGED <<resourceVars, receiverVars, agcVars, decodedMessages, now,
                   protocolId, packet, pos, isTransmitting, events, probe>>

\* generateMessageWav called on its own with an already filtered message, as
\* the service's tests do (before or after the same message is played)
renderMessageWav ==
    /\ phase \in { "direct", "done" }
    /\ ~(isTransmitting \/ isSaving)
    /\ wav = NoWav
    /\ message = getTransmissionPayloadMulti(message, protocolId)
    /\ wav' = generateMessageWav(message, protocolId)
    /\ lastFrame' = HandlerRecord("generateMessageWav")
    /\ UNCHANGED <<resourceVars, receiverVars, agcVars, decodedMessages, now,
                   protocolId, message, packet, pos, phase, isTransmitting, isSaving,
                   events, probe>>

----------------------------------------------------------------------------
(* SpecTransmit: a message is either typed into the sender and then       *)
(* transmitted or saved ("typed"), or handed to the service functions      *)
(* directly ("direct")                                                     *)

TxChars == { 49, 97, 64 }       \* '1', 'a' and '@' (no protocol supports '@')

InitTransmit ==
    /\ InitReceiver
    /\ InitTx
    /\ protocolId \in TableIds
    /\ message \in SeqOver(TxChars, MaxMsgLen)
    /\ packet = <<>>
    /\ pos = 0
    /\ phase \in { "typed", "direct" }
    /\ probe = NoProbe
    /\ lastFrame = NoFrame

NextTransmit ==
    \/ handleTransmitMulti
    \/ playMessage
    \/ PlayToken
    \/ ToneEnded
    \/ PauseElapsed
    \/ handleSaveMulti
    \/ RenderingDone
    \/ renderMessageWav

SpecTransmit == InitTransmit /\ [][NextTransmit]_vars

----------------------------------------------------------------------------
(* Claims about the transmitter                                            *)

\* the payload a handler or a direct call hands to the service
PayloadOf(msg, id) == getTransmissionPayloadMulti(msg, id)

\* tokens is the framed packet of payload: the transform's characters alone
\* under custom framing; otherwise START, the transformed payload, the one
\* checksum character of the transformed payload, STOP
IsPacketOf(tokens, payload, id) ==
    LET t == transformMulti(id, payload)
    IN  IF PROTOCOL_TABLE[id].customPacketHandling
        THEN tokens = t
        ELSE /\ Len(tokens) = Len(t) + 3
             /\ tokens[1] = START_CHAR
             /\ SubSeq(tokens, 2, Len(t) + 1) = t
             /\ tokens[Len(t) + 2] = calculateChecksum(t)
             /\ tokens[Len(t) + 3] = STOP_CHAR

EmptyPacket == << START_CHAR, CHECKSUM_CHAR_CANDIDATES[1], STOP_CHAR >>

\* C16: the token sequence of a message is transform(message) alone under
\* custom framing, and otherwise START, the transformed payload, its checksum
\* character, STOP, in the live path and in the offline render alike; an empty
\* message under shared framing gives exactly START, checksum(''), STOP, and
\* its render is a WAV larger than the 44-byte header.
C16_TokenSequence ==
    /\ (lastFrame.op \in { "handleTransmit", "playMessage" } /\ phase = "progress")
         => /\ IsPacketOf(packet, PayloadOf(message, protocolId), protocolId)
            /\ (message = <<>> /\ ~PROTOCOL_TABLE[protocolId].customPacketHandling)
                 => packet = EmptyPacket
    /\ (lastFrame.op \in { "handleSave", "generateMessageWav" } /\ wav # NoWav)
         => /\ IsPacketOf(wav.tokens, PayloadOf(message, protocolId), protocolId)
            /\ (message = <<>> /\ ~PROTOCOL_TABLE[protocolId].customPacketHandling)
                 => (wav.tokens = EmptyPacket /\ wav.size > WAV_HEADER_BYTES)

\* the empty message is rendered and then played under the standard protocol
C16_Witness ==
    /\ protocolId = "standard"
    /\ message = <<>>
    /\ lastFrame.op = "playMessage"
    /\ phase = "progress"
    /\ packet = EmptyPacket
    /\ wav.tokens = EmptyPacket
    /\ wav.size > WAV_HEADER_BYTES

\* the onProgress calls made so far, in order
ProgressCalls == SelectSeq(events, LAMBDA e : e.kind = "progress")

\* the first frequency of a token's tuple, or no value when it is unmapped
FirstFrequency(id, token) ==
    IF token \in DOMAIN charToFreqMap(id) /\ charToFreqMap(id)[token] # << 0 >>
    THEN charToFreqMap(id)[token][1] ELSE NoValue

TransmissionOver == phase \in { "done", "sent" }

\* C17: a live transmission of N tokens calls onProgress exactly N+1 times;
\* call i carries index i, total N, token i and the first frequency of its
\* tuple (none when unmapped), comes right before token i's tone and after
\* token i-1's tone and pause are over; the closing call carries no index, no
\* token and no frequency and comes after the last token's pause.
C17_ProgressCalls ==
    /\ \A k \in 1..Len(events) :
         /\ events[k].kind = "tone"
              => /\ k > 1
                 /\ events[k - 1].kind = "progress"
                 /\ events[k - 1].index = events[k].index
                 /\ events[k - 1].at <= events[k].at
         /\ (events[k].kind = "progress" /\ events[k].index = 0) => k = 1
         /\ (events[k].kind = "progress" /\ events[k].index # 0)
              => /\ k > 1
                 /\ events[k - 1].kind = "pause"
                 /\ events[k - 1].at + events[k - 1].dur <= events[k].at
                 /\ events[k].index \in { events[k - 1].index + 1, NoValue }
         /\ (events[k].kind = "pause" /\ k > 1 /\ events[k - 1].kind = "tone")
              => events[k - 1].at + events[k - 1].dur <= events[k].at
    /\ \A i \in 1..Len(ProgressCalls) :
         ProgressCalls[i].index # NoValue
           => /\ ProgressCalls[i].index = i - 1
              /\ ProgressCalls[i].total = Len(packet)
              /\ ProgressCalls[i].token = packet[i]
              /\ ProgressCalls[i].freq = FirstFrequency(protocolId, packet[i])
    /\ TransmissionOver
         => /\ Len(ProgressCalls) = Len(packet) + 1
            /\ LET last == ProgressCalls[Len(packet) + 1]
               IN  /\ last = events[Len(events)]
                   /\ last.index = NoValue
                   /\ last.token = NoValue
                   /\ last.freq = NoValue
                   /\ last.total = Len(packet)
            /\ \A i \in 1..Len(packet) : ProgressCalls[i].index = i - 1

\* a transmission with mapped and unmapped tokens has run to its end
C17_Witness ==
    /\ TransmissionOver
    /\ \E i \in 1..Len(packet) : FirstFrequency(protocolId, packet[i]) = NoValue
    /\ \E i \in 1..Len(packet) : FirstFrequency(protocolId, packet[i]) # NoValue
    /\ Len(ProgressCalls) = Len(packet) + 1

\* the protocol's alphabet has the character
InProtocolAlphabet(char, id) ==
    IF id = "text_to_dtmf"
    THEN toLowerCase(char) \in Range(TEXT_PROTOCOL_CHARSET) /\ char # Star /\ char # Hash
    ELSE \E token \in DOMAIN charToFreqMap(id) : token = char

NothingSupported == \A i \in 1..Len(message) : ~InProtocolAlphabet(message[i], protocolId)

\* C18: a transmit or save request for a message without any character the
\* selected protocol supports is cancelled: no tone, no progress call, no WAV,
\* and the sender is neither transmitting nor saving afterwards.
C18_UnsupportedMessageAborts ==
    /\ (lastFrame.op \in { "handleTransmit", "handleSave" } /\ NothingSupported)
         => phase = "aborted"
    /\ phase = "aborted"
         => /\ events = <<>>
            /\ packet = <<>>
            /\ wav = NoWav
            /\ ~isTransmitting
            /\ ~isSaving

\* a non-empty message of unsupported characters was sent for transmission
C18_Witness ==
    /\ lastFrame.op = "handleTransmit"
    /\ message # <<>>
    /\ NothingSupported
    /\ phase = "aborted"

\* one token's slot
SlotMs(id) == PROTOCOL_TABLE[id].toneDuration + pauseDurationOf(id)

\* when the live path reached token i (counted from one), measured from the
\* start of the transmission
LiveStart(i) == ProgressCalls[i].at - ProgressCalls[1].at

\* C19: for the same message, protocol and pause the offline render schedules
\* exactly the tokens the live path plays, in the same order and with the same
\* slot of toneDuration + pauseDuration, one second later: token i starts at
\* 1000 ms + i * slot in the render and at i * slot in the live transmission.
C19_OfflineMatchesLive ==
    (phase = "done" /\ wav # NoWav)
      => /\ wav.tokens = packet
         /\ Len(wav.schedule) = Len(packet)
         /\ \A i \in 1..Len(packet) :
              /\ wav.schedule[i].token = packet[i]
              /\ wav.schedule[i].start = INITIAL_PAUSE_MS + (i - 1) * SlotMs(protocolId)
              /\ wav.schedule[i].start = INITIAL_PAUSE_MS + LiveStart(i)

\* C20: an unmapped token does not stop the transmission, and it takes a
\* silent slot as long as a mapped token's: all N tokens are gone through in
\* order and the N tokens take N * (toneDuration + pauseDuration), live as in
\* the render.
C20_UnmappedTokenKeepsItsSlot ==
    /\ TransmissionOver
         => /\ Len(ProgressCalls) = Len(packet) + 1
            /\ \A i \in 1..Len(packet) : ProgressCalls[i].token = packet[i]
            /\ LiveStart(Len(packet) + 1) = Len(packet) * SlotMs(protocolId)
    /\ phase \in { "rendering", "saved" }
         => /\ Len(wav.schedule) = Len(wav.tokens)
            /\ \A i \in 1..Len(wav.tokens) :
                 wav.schedule[i].start = INITIAL_PAUSE_MS + (i - 1) * SlotMs(protocolId)
            /\ wav.length * 1000 >= SAMPLE_RATE * (INITIAL_PAUSE_MS + Len(wav.tokens) * SlotMs(protocolId))

----------------------------------------------------------------------------
(* bufferToWav: the byte stream of a WAV file                               *)

MaxFrames == 2
MaxChannels == 2
SampleRates == { 8000, SAMPLE_RATE }
\* channel samples in tenths: -1.5, 0.5 and 1.5
SampleTenths == { 0 - 15, 5, 15 }

\* the low byte first
RECURSIVE LittleEndian(_, _)
LittleEndian(data, width) ==
    IF width = 0 THEN <<>>
    ELSE << data % 256 >> \o LittleEndian(data \div 256, width - 1)

\* variant: the high byte first
setUint32_BigEndian(view, data) ==
    view \o << (data \div 16777216) % 256, (data \div 65536) % 256,
               (data \div 256) % 256, data % 256 >>

\* view.setUint16(pos, data, true); pos += 2
setUint16(view, data) == view \o LittleEndian(data, 2)

\* view.setUint32(pos, data, true); pos += 4
setUint32(view, data) == view \o LittleEndian(data, 4)

\* Math.max(-1, Math.min(1, sample)), then the scale to 16 bits; setInt16
\* drops the fraction and stores the two's complement
sampleToInt16(tenths) ==
    LET clamped == Max2(0 - 10, Min2(10, tenths))
    IN  IF clamped < 0 THEN 0 - ((0 - clamped) * 32768) \div 10
        ELSE (clamped * 32767) \div 10

\* view.setInt16(pos, sample, true); pos += 2
setInt16(view, sample) == view \o LittleEndian((sample + 65536) % 65536, 2)

\* const length = buffer.length * numOfChan * 2 + 44
wavLength(buffer) == buffer.length * buffer.numberOfChannels * 2 + WAV_HEADER_BYTES

\* the RIFF header, the "fmt " sub-chunk and the head of the "data" sub-chunk,
\* written in the order of the code; pos is the number of bytes written
wavHeader(buffer) ==
    LET numOfChan == buffer.numberOfChannels
        length == wavLength(buffer)
        v1  == setUint32(<<>>, 1179011410)                 \* "RIFF"
        v2  == setUint32(v1, length - 8)
        v3  == setUint32(v2, 1163280727)                   \* "WAVE"
        v4  == setUint32(v3, 544501094)                    \* "fmt "
        v5  == setUint32(v4, 16)
        v6  == setUint16(v5, 1)
        v7  == setUint16(v6, numOfChan)
        v8  == setUint32(v7, buffer.sampleRate)
        v9  == setUint32(v8, buffer.sampleRate * 2 * numOfChan)
        v10 == setUint16(v9, numOfChan * 2)
        v11 == setUint16(v10, 16)
        v12 == setUint32(v11, 1635017060)                  \* "data"
    IN  setUint32(v12, length - Len(v12) - 4)

AudioBuffers ==
    UNION { { [ length |-> F, numberOfChannels |-> C, sampleRate |-> rate, channels |-> ch ] :
                ch \in [ 1..C -> [ 1..F -> SampleTenths ] ] } :
            <<F, C, rate>> \in (0..MaxFrames) \X (1..MaxChannels) \X SampleRates }

InitWav ==
    /\ InitReceiver
    /\ InitSenderIdle
    /\ \E buffer \in AudioBuffers :
         probe = [ op |-> "buffer", input |-> << buffer >>, found |-> FALSE, output |-> <<>> ]
    /\ lastFrame = NoFrame

\* bufferToWav up to the sample loop
bufferToWavHeader ==
    /\ probe.op = "buffer"
    /\ probe' = [ probe EXCEPT !.op = "data", !.output = wavHeader(probe.input[1]) ]
    /\ UNCHANGED <<resourceVars, receiverVars, agcVars, decodedMessages, now, senderVars, lastFrame>>

\* one turn of the inner loop: sample i of channel j
bufferToWavSample ==
    /\ probe.op = "data"
    /\ LET buffer == probe.input[1]
           written == (Len(probe.output) - WAV_HEADER_BYTES) \div 2
           i == written \div buffer.numberOfChannels
           j == written % buffer.numberOfChannels
       IN  /\ i < buffer.length
           /\ probe' = [ probe EXCEPT
                           !.output = setInt16(probe.output, sampleToInt16(buffer.channels[j + 1][i + 1])) ]
    /\ UNCHANGED <<resourceVars, receiverVars, agcVars, decodedMessages, now, senderVars, lastFrame>>

\* the loops are over: new Blob([view]) of the allocated length; bytes never
\* written stay zero
bufferToWavBlob ==
    /\ probe.op = "data"
    /\ LET buffer == probe.input[1]
           written == (Len(probe.output) - WAV_HEADER_BYTES) \div 2
       IN  /\ written \div buffer.numberOfChannels >= buffer.length
           /\ probe' = [ probe EXCEPT
                           !.op = "blob", !.found = TRUE,
                           !.output = [ k \in 1..wavLength(buffer) |->
                                          IF k <= Len(probe.output) THEN probe.output[k] ELSE 0 ] ]
    /\ UNCHANGED <<resourceVars, receiverVars, agcVars, decodedMessages, now, senderVars, lastFrame>>

NextWav == bufferToWavHeader \/ bufferToWavSample \/ bufferToWavBlob

SpecWav == InitWav /\ [][NextWav]_vars

\* reading the file back: an unsigned little-endian field at a byte offset
RECURSIVE FieldAt(_, _, _)
FieldAt(bytes, offset, width) ==
    IF width = 0 THEN 0
    ELSE bytes[offset + 1] + 256 * FieldAt(bytes, offset + 1, width - 1)

\* C21: the WAV stream of a buffer of F frames and C channels is 44 + 2*F*C
\* bytes long; the RIFF size field is that length minus 8, the data size field
\* is 2*F*C, block align is 2*C, byte rate is sampleRate*2*C, the format is
\* PCM (1) with 16 bits a sample, and the header is exactly the first 44 bytes
\* (the samples start at byte 44 and end with the file).
C21_WavLayout ==
    /\ probe.op = "data" => Len(probe.output) >= WAV_HEADER_BYTES
    /\ probe.op = "blob"
         => LET buffer == probe.input[1]
                F == buffer.length
                C == buffer.numberOfChannels
                bytes == probe.output
            IN  /\ Len(bytes) = 44 + 2 * F * C
                /\ FieldAt(bytes, 0, 4) = 1179011410
                /\ FieldAt(bytes, 4, 4) = Len(bytes) - 8
                /\ FieldAt(bytes, 8, 4) = 1163280727
                /\ FieldAt(bytes, 12, 4) = 544501094
                /\ FieldAt(bytes, 16, 4) = 16
                /\ FieldAt(bytes, 20, 2) = 1
                /\ FieldAt(bytes, 22, 2) = C
                /\ FieldAt(bytes, 24, 4) = buffer.sampleRate
                /\ FieldAt(bytes, 28, 4) = buffer.sampleRate * 2 * C
                /\ FieldAt(bytes, 32, 2) = 2 * C
                /\ FieldAt(bytes, 34, 2) = 16
                /\ FieldAt(bytes, 36, 4) = 1635017060
                /\ FieldAt(bytes, 40, 4) = 2 * F * C
                /\ \A i \in 0..(F - 1) : \A j \in 0..(C - 1) :
                     FieldAt(bytes, 44 + 2 * (i * C + j), 2)
                       = (sampleToInt16(buffer.channels[j + 1][i + 1]) + 65536) % 65536

\* a two-channel buffer with frames has been written out in full
C21_Witness ==
    /\ probe.op = "blob"
    /\ probe.input[1].numberOfChannels = 2
    /\ probe.input[1].length = MaxFrames
    /\ probe.input[1].sampleRate = SAMPLE_RATE
    /\ Len(probe.output) = 44 + 4 * MaxFrames

----------------------------------------------------------------------------
(* The capture lifecycle of useAudioProcessor.ts, with startListening      *)
(* split at its await and the consumer's teardown                          *)

MaxPending == 2     \* startListening calls that may wait for the device at once
MaxStreams == 3     \* MediaStreams that may be live at once

\* where the synchronous part of startListening after the await may throw
StartOutcomes == { "ok", "AudioContext", "createAnalyser", "createMediaStreamSource" }

\* startListening up to `await navigator.mediaDevices.getUserMedia`
startListeningCall ==
    /\ mounted
    /\ ~isListening
    /\ startPending < MaxPending
    /\ startPending' = startPending + 1
    /\ lastFrame' = NoFrame
    /\ UNCHANGED <<isListening, streamRef, audioContextRef, analyserRef, sourceRef,
                   frameScheduled, pendingFrames, liveStreams, mounted, receiverVars,
                   agcVars, decodedMessages, now,
                   senderVars, probe>>

\* getUserMedia rejects: the catch block reports the error
getUserMediaRejected ==
    /\ startPending > 0
    /\ startPending' = startPending - 1
    /\ lastFrame' = [ NoFrame EXCEPT !.op = "startFailed" ]
    /\ UNCHANGED <<isListening, streamRef, audioContextRef, analyserRef, sourceRef,
                   frameScheduled, pendingFrames, liveStreams, mounted, receiverVars,
                   agcVars, decodedMessages, now,
                   senderVars, probe>>

\* getUserMedia resolves and startListening runs on to its end, or to the
\* statement that throws; the catch block releases nothing
getUserMediaResolved(outcome) ==
    /\ startPending > 0
    /\ liveStreams < MaxStreams
    /\ startPending' = startPending - 1
    /\ streamRef' = TRUE
    /\ liveStreams' = liveStreams + 1
    /\ audioContextRef' = IF outcome = "AudioContext" THEN audioContextRef ELSE TRUE
    /\ analyserRef' = IF outcome \in { "AudioContext", "createAnalyser" } THEN analyserRef ELSE TRUE
    /\ IF outcome = "ok"
       THEN /\ sourceRef' = TRUE
            /\ isListening' = IF mounted THEN TRUE ELSE isListening
            /\ receivingStateRef' = "IDLE"
            /\ decoderStateRef' = "WAITING_FOR_TONE"
            /\ currentMessageBufferRef' = <<>>
            /\ lastCharTimestampRef' = 0
            /\ silenceFramesCounterRef' = 0
            /\ requestAnimationFrame
            /\ loopThreshold' = currentThreshold
            /\ lastFrame' = [ NoFrame EXCEPT !.op = "startListening" ]
       ELSE /\ lastFrame' = [ NoFrame EXCEPT !.op = "startFailed" ]
            /\ UNCHANGED <<sourceRef, isListening, frameScheduled, pendingFrames, receiverVars,
                           loopThreshold>>
    /\ UNCHANGED <<mounted, ambientNoiseLevelRef, currentThreshold, decodedMessages, now,
                   senderVars, probe>>

\* the consumer unmounts: the effect's cleanup calls stopListening, which
\* returns at once unless isListening
unmount ==
    /\ mounted
    /\ mounted' = FALSE
    /\ IF isListening
       THEN /\ cancelAnimationFrame
            /\ stopTracks
            /\ streamRef' = FALSE
            /\ sourceRef' = FALSE
            /\ audioContextRef' = FALSE
            /\ analyserRef' = FALSE
            /\ receivingStateRef' = "IDLE"
            /\ decoderStateRef' = "WAITING_FOR_TONE"
            /\ currentMessageBufferRef' = <<>>
            /\ isListening' = FALSE
            /\ UNCHANGED <<lastCharTimestampRef, silenceFramesCounterRef>>
       ELSE UNCHANGED <<isListening, streamRef, audioContextRef, analyserRef, sourceRef,
                        frameScheduled, pendingFrames, liveStreams, receiverVars>>
    /\ lastFrame' = [ NoFrame EXCEPT !.op = "unmount" ]
    /\ UNCHANGED <<startPending, agcVars, decodedMessages, now, senderVars, probe>>

\* the frames of the lifecycle runs: steady noise, and a loud START tone
LifecycleFrames ==
    { [peak |-> QuietPeak, avg |-> NoiseAvg, tone |-> NoValue],
      [peak |-> LoudPeak,  avg |-> NoiseAvg, tone |-> Star] }

FrameLifecycle == \E frame \in LifecycleFrames : analysisLoop(frame)

Settle ==
    \/ getUserMediaRejected
    \/ \E outcome \in StartOutcomes : getUserMediaResolved(outcome)

NextLifecycle ==
    \/ startListeningCall
    \/ Settle
    \/ (mounted /\ stopListening)
    \/ unmount
    \/ FrameLifecycle
    \/ Tick

SpecLifecycle == Init /\ [][NextLifecycle]_vars

\* none of the capture resources is held and no frame is scheduled
Released ==
    /\ ~streamRef
    /\ ~audioContextRef
    /\ ~analyserRef
    /\ ~sourceRef
    /\ ~frameScheduled

\* C22: the stream, the context, the analyser and source and the scheduled
\* frame are released together: right after stopListening, right after a
\* failure at any step of startListening while not listening, and once the
\* consumer is torn down and no startListening call is still in flight, none
\* of them is held.
C22_ResourcesReleasedTogether ==
    /\ lastFrame.op = "stopListening" => Released
    /\ (lastFrame.op = "startFailed" /\ ~isListening /\ mounted) => Released
    /\ (~mounted /\ startPending = 0) => Released

----------------------------------------------------------------------------
(* Properties of the message log and of sessions (Spec)                    *)

IsPrefix(s, t) == Len(s) <= Len(t) /\ SubSeq(t, 1, Len(s)) = s

\* C23: the log is append-only for the receiver: every step (a frame with its
\* token or timeout, a start, a stop, a clock tick) leaves the entries it
\* found in place and at most appends after them; only clearDecodedMessages
\* changes existing content, and it leaves the log empty.
C23_LogAppendOnly ==
    [][ IF lastFrame'.op = "clearDecodedMessages"
        THEN decodedMessages' = <<>>
        ELSE IsPrefix(decodedMessages, decodedMessages') ]_vars

\* a frame has appended an entry behind an entry that was already there
C23_Witness ==
    /\ lastFrame.op = "frame"
    /\ lastFrame.token = Star
    /\ lastFrame.wasReceiving
    /\ Len(decodedMessages) = 2
    /\ decodedMessages[1].status = "success"
    /\ decodedMessages[2].status = "error"

\* the step ends a session that has buffered at least one token: its buffer
\* is gone afterwards
SessionEnds ==
    /\ receivingStateRef = "RECEIVING"
    /\ currentMessageBufferRef # <<>>
    /\ ~IsPrefix(currentMessageBufferRef, currentMessageBufferRef')

\* C24 as stated: every session with at least one buffered token leaves
\* exactly one log entry when it ends, by STOP, timeout, a new START or
\* stopListening alike.
C24_Original ==
    [][ SessionEnds => Len(decodedMessages') = Len(decodedMessages) + 1 ]_vars

\* C24: a session with at least one buffered token leaves exactly one log
\* entry when it ends by STOP, by timeout or by a new START, and none when
\* stopListening ends it; no step appends more than one entry, and an entry is
\* appended only by the end of such a session.
C24_OneEntryPerSession ==
    [][ /\ SessionEnds
          => IF lastFrame'.op = "stopListening"
             THEN decodedMessages' = decodedMessages
             ELSE /\ Len(decodedMessages') = Len(decodedMessages) + 1
                  /\ IsPrefix(decodedMessages, decodedMessages')
        /\ Len(decodedMessages') <= Len(decodedMessages) + 1
        /\ Len(decodedMessages') > Len(decodedMessages) => SessionEnds ]_vars

\* stopListening has ended a session with buffered tokens and nothing was logged
C24_Witness ==
    /\ lastFrame.op = "stopListening"
    /\ lastFrame.wasReceiving
    /\ decodedMessages = <<>>
    /\ currentMessageBufferRef = <<>>

\* C25: right after startListening succeeds and right after stopListening the
\* framing state is IDLE, the buffer is empty and the debounce machine waits
\* for a tone, whatever the session was before; so the tokens of a session
\* that stopListening cut short are gone before the next start, and a buffer
\* only ever holds tokens delivered by frames since then.
C25_StartAndStopReset ==
    lastFrame.op \in { "startListening", "stopListening" }
      => /\ receivingStateRef = "IDLE"
         /\ currentMessageBufferRef = <<>>
         /\ decoderStateRef = "WAITING_FOR_TONE"

\* stopListening has cut a session short whose last token had just been decoded
C25_Witness ==
    /\ lastFrame.op = "stopListening"
    /\ lastFrame.wasReceiving
    /\ lastCharTimestampRef > 0
    /\ receivingStateRef = "IDLE"
    /\ decoderStateRef = "WAITING_FOR_TONE"

----------------------------------------------------------------------------
(* Properties of the debounce machine (Spec)                               *)

FrameStep == lastFrame'.op = "frame"

C27_RearmNeedsSeveralQuietFrames ==
    [][ ( /\ FrameStep
          /\ decoderStateRef = "WAITING_FOR_SILENCE"
          /\ decoderStateRef' = "WAITING_FOR_TONE" )
        => ( /\ lastFrame'.level = "below"
             /\ silenceFramesCounterRef + 1 \in { 2, 3 } ) ]_vars

----------------------------------------------------------------------------
(* Properties of the cooldown counter (SpecMulti)                          *)

\* C28: in cooldown a frame whose peak is not below the threshold takes one
\* off the quiet-frame counter, never below zero, and does not reset it; a
\* quiet frame adds one, and the decoder is re-armed exactly when the counter
\* reaches QUIET_FRAMES_TO_IDLE, so quiet frames counted before one loud
\* frame still count.
C28_LoudFrameDecrements ==
    [][ ( FrameStep /\ decoderStateRef = "COOLDOWN" )
        => ( /\ lastFrame'.level # "below"
                  => /\ silenceFramesCounterRef' = Max2(0, silenceFramesCounterRef - 1)
                     /\ silenceFramesCounterRef' >= 0
             /\ lastFrame'.level = "below"
                  => silenceFramesCounterRef' = silenceFramesCounterRef + 1
             /\ decoderStateRef' = "IDLE"
                  <=> silenceFramesCounterRef' >= QUIET_FRAMES_TO_IDLE ) ]_vars

\* two quiet frames, then a loud one: one quiet frame is still counted
C28_Witness ==
    /\ lastFrame.op = "frame"
    /\ lastFrame.level = "above"
    /\ decoderStateRef = "COOLDOWN"
    /\ silenceFramesCounterRef = 1

\* C29: a tone for a different token in the frame right after a decoded tone,
\* with no quiet frame between them, is decoded and delivered as well; so a
\* START right after a data tone or right after ignored digits opens a new
\* session.
C29_BackToBackToneDecoded ==
    [][ ( /\ FrameStep
          /\ lastFrame.op = "frame"
          /\ lastFrame.token # NoValue
          /\ lastFrame'.heard # NoValue
          /\ lastFrame'.heard # lastFrame.token )
        => ( /\ lastFrame'.token = lastFrame'.heard
             /\ lastFrame'.heard = Star
                  => /\ receivingStateRef' = "RECEIVING"
                     /\ currentMessageBufferRef' = <<>> ) ]_vars

----------------------------------------------------------------------------
(* SpecAgc: the threshold control of analysisLoop under frames of any level *)

MaxMagnitude == 255     \* getByteFrequencyData fills a Uint8Array

\* frames without a recognisable tone: silence, faint noise, noise just under
\* the initial threshold, and every bin at full scale
AgcFrames ==
    { [peak |-> 0, avg |-> 0, tone |-> NoValue],
      [peak |-> 100, avg |-> TestNoise, tone |-> NoValue],
      [peak |-> INITIAL_DETECTION_THRESHOLD - 1, avg |-> INITIAL_DETECTION_THRESHOLD - 1,
       tone |-> NoValue],
      [peak |-> MaxMagnitude, avg |-> MaxMagnitude, tone |-> NoValue] }

FrameAgc == \E frame \in AgcFrames : analysisLoop(frame)

NextAgc == startListening(TRUE) \/ FrameAgc

SpecAgc == Init /\ [][NextAgc]_vars

\* clamp(noise estimate + offset) in hundredths
ClampedHundredths ==
    Max2(MIN_DETECTION_THRESHOLD * 100,
         Min2(MAX_DETECTION_THRESHOLD * 100, ambientNoiseLevelRef + AGC_THRESHOLD_OFFSET * 100))

\* C30 as stated: after every frame the threshold is an integer in 130..230
\* equal to the clamped value of the noise estimate plus 30, and the noise
\* estimate is within 0..255.
C30_Original ==
    lastFrame.op = "frame"
      => /\ currentThreshold \in MIN_DETECTION_THRESHOLD..MAX_DETECTION_THRESHOLD
         /\ currentThreshold * 100 = ClampedHundredths
         /\ ambientNoiseLevelRef \in 0..(MaxMagnitude * 100)

\* C30: after every frame the threshold is an integer in 130..230, equal to
\* the clamped value of the noise estimate plus 30 rounded to the nearest
\* integer (at most one half away from it), and the noise estimate is within
\* 0..255.
C30_ThresholdClamped ==
    lastFrame.op = "frame"
      => /\ currentThreshold \in MIN_DETECTION_THRESHOLD..MAX_DETECTION_THRESHOLD
         /\ currentThreshold * 100 - ClampedHundredths \in (0 - 49)..50
         /\ ambientNoiseLevelRef \in 0..(MaxMagnitude * 100)

\* the noise estimate has risen above the floor and the threshold follows it,
\* rounded up from a fraction
C30_Witness ==
    /\ lastFrame.op = "frame"
    /\ currentThreshold > MIN_DETECTION_THRESHOLD
    /\ currentThreshold < MAX_DETECTION_THRESHOLD
    /\ currentThreshold * 100 > ClampedHundredths
----------------------------------------------------------------------------
(* The AGC gate and the threshold it compares with (SpecAgc)               *)

\* C31: the threshold is never frozen once listening starts: in every frame
\* the noise estimate moves only as some frame whose peak is compared with the
\* current threshold (the one the preceding frame produced) would move it, and
\* never as a comparison with a value captured at start would.
C31_GateUsesCurrentThreshold ==
    [][ lastFrame'.op = "frame"
          => \E frame \in AgcFrames :
                /\ Level(frame, currentThreshold') = lastFrame'.level
                /\ ambientNoiseLevelRef'
                      = NextAmbient(ambientNoiseLevelRef, frame, currentThreshold) ]_vars
----------------------------------------------------------------------------
(* SpecQuality: the receiver under tones of differing clarity              *)

\* the frames of Spec and two tones over a louder background
QualityFrames ==
    Frames \cup { [peak |-> LoudPeak, avg |-> LoudPeak \div 2, tone |-> Zero],
                  [peak |-> LoudPeak, avg |-> LoudPeak - QuietPeak, tone |-> Zero] }

FrameQuality ==
    \E frame \in QualityFrames :
        /\ analysisLoop(frame)
        /\ Len(currentMessageBufferRef') <= MaxBuf
        /\ Len(decodedMessages') <= MaxLog

NextQuality == startListening(TRUE) \/ FrameQuality \/ stopListening

SpecQuality == Init /\ [][NextQuality]_vars

\* what a frame does to the debounce and framing machines, the log and the
\* threshold, computed from the state before it and the frame alone
DetectionAfter(frame) ==
    LET newThreshold == NewThreshold(NextAmbient(ambientNoiseLevelRef, frame, loopThreshold))
        fs == AfterFrame(FramingState, frame, decoderStateRef, newThreshold, now)
    IN  [ token     |-> Delivered(frame, decoderStateRef, newThreshold),
          decoder   |-> NextDecoder(frame, decoderStateRef, newThreshold),
          framing   |-> fs.receivingState,
          buffer    |-> fs.buffer,
          log       |-> fs.log,
          threshold |-> newThreshold ]

----------------------------------------------------------------------------
(* The tone lookup of the multi-protocol receiver. A Map is kept as the     *)
(* sequence of its <<key, value>> entries in insertion order.               *)

FREQUENCY_TOLERANCE == 20
DTMF_FREQUENCY_TOLERANCE == 15

Abs(x) == IF x < 0 THEN 0 - x ELSE x

\* new Map(pairs): a key keeps the place of its first pair and takes the value
\* of its last one
MapFrom(pairs) ==
    LET firsts == { i \in 1..Len(pairs) : \A j \in 1..(i - 1) : pairs[j][1] # pairs[i][1] }
        rank   == [ i \in firsts |-> Cardinality({ j \in firsts : j <= i }) ]
        last   == [ i \in firsts |->
                      SetMax({ j \in 1..Len(pairs) : pairs[j][1] = pairs[i][1] }) ]
    IN  [ k \in 1..Cardinality(firsts) |->
            LET i == CHOOSE f \in firsts : rank[f] = k
            IN  << pairs[i][1], pairs[last[i]][2] >> ]

\* the entries of CHAR_TO_FREQ_MAP_STD / _QUIET as [freq, char] pairs
FreqCharPairs(base, step) ==
    [ i \in 1..Len(CHARACTERS) |-> << base + (i - 1) * step, CHARACTERS[i] >> ]
        \o << << START_FREQ_SIGNAL, START_CHAR >>, << STOP_FREQ_SIGNAL, STOP_CHAR >> >>

MASTER_FREQ_TO_CHAR_MAP ==
    MapFrom(FreqCharPairs(START_FREQ_STD, STEP_FREQ_STD)
                \o FreqCharPairs(START_FREQ_QUIET, STEP_FREQ_QUIET))

\* the custom map of the receiver with nothing saved in localStorage
customFreqMap ==
    MapFrom(FreqCharPairs(CustomBaseFreq, CustomStepFreq))

decodingMap == MapFrom(MASTER_FREQ_TO_CHAR_MAP \o customFreqMap)

\* the calls of processDecodedChar made by the single-tone lookup: the first
\* entry within the tolerance
fskLookup(detectedFreq) ==
    LET hits == { i \in 1..Len(decodingMap) :
                    Abs(detectedFreq - decodingMap[i][1]) <= FREQUENCY_TOLERANCE }
    IN  IF hits = {} THEN <<>>
        ELSE << decodingMap[CHOOSE i \in hits : \A j \in hits : i <= j][2] >>

\* the grid frequency the loop over DTMF_CHARACTERS leaves in matchedLowFreq or
\* matchedHighFreq (column 1 or 2 of DTMF_FREQUENCIES): the last one within
\* the tolerance, 0 when there is none
matchedFreq(peakFreq, column) ==
    LET hits == { i \in 1..Len(DTMF_CHARACTERS) :
                    Abs(peakFreq - DTMF_FREQUENCIES[DTMF_CHARACTERS[i]][column])
                        <= DTMF_FREQUENCY_TOLERANCE }
    IN  IF hits = {} THEN 0
        ELSE DTMF_FREQUENCIES[DTMF_CHARACTERS[CHOOSE i \in hits : \A j \in hits : i >= j]][column]

\* the calls of processDecodedChar made by the DTMF attempt
dtmfLookup(lowBand, highBand, newThreshold) ==
    LET matchedLowFreq  == matchedFreq(lowBand.peakFreq, 1)
        matchedHighFreq == matchedFreq(highBand.peakFreq, 2)
        hits == { i \in 1..Len(DTMF_CHARACTERS) :
                    DTMF_FREQUENCIES[DTMF_CHARACTERS[i]] = << matchedLowFreq, matchedHighFreq >> }
    IN  IF /\ lowBand.peakAmp > newThreshold
           /\ highBand.peakAmp > newThreshold
           /\ matchedLowFreq # 0
           /\ matchedHighFreq # 0
           /\ hits # {}
        THEN << DTMF_CHARACTERS[CHOOSE i \in hits : \A j \in hits : i <= j] >>
        ELSE <<>>

\* variant: the single-tone lookup runs whether or not a DTMF token was found
decodeTone_BothLookups(spectrum, newThreshold) ==
    IF spectrum.maxOverallAmplitude > newThreshold
    THEN LET dtmf == dtmfLookup(spectrum.lowBand, spectrum.highBand, newThreshold)
         IN  [ calls |-> dtmf \o fskLookup(spectrum.detectedFreq), fskAttempted |-> TRUE ]
    ELSE [ calls |-> <<>>, fskAttempted |-> FALSE ]

\* case 'IDLE' of analysisLoop: the calls of processDecodedChar, and whether
\* the single-tone lookup was run
decodeTone(spectrum, newThreshold) ==
    IF spectrum.maxOverallAmplitude > newThreshold
    THEN LET dtmf == dtmfLookup(spectrum.lowBand, spectrum.highBand, newThreshold)
         IN  IF dtmf # <<>>
             THEN [ calls |-> dtmf, fskAttempted |-> FALSE ]
             ELSE [ calls |-> fskLookup(spectrum.detectedFreq), fskAttempted |-> TRUE ]
    ELSE [ calls |-> <<>>, fskAttempted |-> FALSE ]

----------------------------------------------------------------------------
(* SpecDetect: one spectrum looked up by the idle decoder                   *)

\* band peaks on a grid frequency, at and one past the edge of the tolerance
LowPeakFreqs  == { DTMF_LOW_FREQS[1], DTMF_LOW_FREQS[1] + DTMF_FREQUENCY_TOLERANCE,
                   DTMF_LOW_FREQS[1] + DTMF_FREQUENCY_TOLERANCE + 1, DTMF_LOW_FREQS[4] }
HighPeakFreqs == { DTMF_HIGH_FREQS[1], DTMF_HIGH_FREQS[1] + DTMF_FREQUENCY_TOLERANCE,
                   DTMF_HIGH_FREQS[1] + DTMF_FREQUENCY_TOLERANCE + 1, DTMF_HIGH_FREQS[3] }

\* two tones: the overall peak is the louder band peak, the lower one on a tie
DualToneSpectra ==
    { [ maxOverallAmplitude |-> Max2(la, ha),
        lowBand      |-> [ peakFreq |-> lf, peakAmp |-> la ],
        highBand     |-> [ peakFreq |-> hf, peakAmp |-> ha ],
        detectedFreq |-> IF la >= ha THEN lf ELSE hf ] :
        lf \in LowPeakFreqs, hf \in HighPeakFreqs,
        la \in { EdgePeak, LoudPeak }, ha \in { EdgePeak, LoudPeak } }

\* the start of the DTMF bands, where findPeakInBand begins its search
LowBandStart  == 650
HighBandStart == 1150

\* one tone at the exact frequency a single-tone protocol plays for a token,
\* over the background noise of the tests
SingleToneSpectra ==
    { [ maxOverallAmplitude |-> LoudPeak,
        lowBand      |-> [ peakFreq |-> LowBandStart,  peakAmp |-> TestNoise ],
        highBand     |-> [ peakFreq |-> HighBandStart, peakAmp |-> TestNoise ],
        detectedFreq |-> charToFreqMap(id)[token][1] ] :
        id \in { "standard", "quiet" }, token \in DOMAIN CHAR_TO_FREQ_MAP_STD }

InitDetect ==
    /\ InitReceiver
    /\ InitSenderIdle
    /\ lastFrame = NoFrame
    /\ \E spectrum \in DualToneSpectra \cup SingleToneSpectra :
          probe = [ op |-> "spectrum", input |-> << spectrum >>, found |-> FALSE,
                    output |-> <<>> ]

\* one frame of the idle decoder over the spectrum, at the lowest threshold
Detect ==
    /\ probe.op = "spectrum"
    /\ LET result == decodeTone(probe.input[1], MIN_DETECTION_THRESHOLD)
       IN  probe' = [ op |-> "decodeTone", input |-> probe.input,
                      found |-> result.fskAttempted, output |-> result.calls ]
    /\ UNCHANGED <<resourceVars, receiverVars, agcVars, decodedMessages, now, senderVars, lastFrame>>

NextDetect == Detect

SpecDetect == InitDetect /\ [][NextDetect]_vars

\* the band peak is within the DTMF tolerance of a grid frequency
OnGrid(peakFreq, grid) ==
    \E i \in 1..Len(grid) : Abs(peakFreq - grid[i]) <= DTMF_FREQUENCY_TOLERANCE

\* the DTMF character of the grid pair nearest to the two band peaks
GridToken(spectrum) ==
    CHOOSE c \in Range(DTMF_CHARACTERS) :
        /\ Abs(spectrum.lowBand.peakFreq - DTMF_FREQUENCIES[c][1]) <= DTMF_FREQUENCY_TOLERANCE
        /\ Abs(spectrum.highBand.peakFreq - DTMF_FREQUENCIES[c][2]) <= DTMF_FREQUENCY_TOLERANCE

\* C33: every frame delivers at most one token, and dual-tone recognition comes
\* first: when both band peaks exceed the threshold and each is within the
\* DTMF tolerance of a grid frequency, the DTMF token of that pair is delivered
\* and the single-tone lookup is not attempted; the single-tone lookup runs
\* only when no DTMF token was found.
C33_DualToneFirst ==
    probe.op = "decodeTone" =>
        LET spectrum == probe.input[1]
            dual == /\ spectrum.lowBand.peakAmp > MIN_DETECTION_THRESHOLD
                    /\ spectrum.highBand.peakAmp > MIN_DETECTION_THRESHOLD
                    /\ OnGrid(spectrum.lowBand.peakFreq, DTMF_LOW_FREQS)
                    /\ OnGrid(spectrum.highBand.peakFreq, DTMF_HIGH_FREQS)
        IN  /\ Len(probe.output) <= 1
            /\ dual => probe.output = << GridToken(spectrum) >> /\ ~probe.found
            /\ probe.found => ~dual

\* two loud band peaks on the grid pair of '1', the higher one also within the
\* single-tone tolerance of an entry of the decoding map: '1' is delivered
C33_Witness ==
    /\ probe.op = "decodeTone"
    /\ probe.input[1].lowBand.peakAmp = LoudPeak
    /\ probe.input[1].highBand.peakAmp = LoudPeak
    /\ probe.input[1].detectedFreq = DTMF_LOW_FREQS[1]
    /\ fskLookup(probe.input[1].highBand.peakFreq) # <<>>
    /\ probe.output = << DTMF_CHARACTERS[1] >>
    /\ ~probe.found

\* C36: for every character of the standard and quiet protocols, looking up
\* the exact frequency the transmitter assigns to it in the receiver's merged
\* decoding map (master map combined with the custom map of base 1000 Hz and
\* step 50 Hz, first entry within tolerance wins) returns that character.
C36_ExactFrequencyDecodes ==
    (probe.op = "decodeTone" /\ probe.input[1] \in SingleToneSpectra) =>
        \A id \in { "standard", "quiet" } : \A c \in Range(CHARACTERS) :
            charToFreqMap(id)[c][1] = probe.input[1].detectedFreq
                => probe.output = << c >>
----------------------------------------------------------------------------
(* The sampling loop and the capture device (SpecLifecycle)                *)

\* C34: the receiver runs a single sampling loop over a single capture
\* device, also when startListening is invoked again before the first
\* invocation's getUserMedia has resolved: at most one stream is live, and at
\* most one callback is pending per animation frame, so that each spectrum is
\* processed once.
C34_SingleLoopSingleStream ==
    (mounted /\ isListening) => (pendingFrames <= 1 /\ liveStreams <= 1)
----------------------------------------------------------------------------
(* SpecTimeout: the receiver while frames keep arriving and time passes    *)

\* steady noise, a START tone and a digit tone
TimeoutFrames ==
    { [peak |-> QuietPeak, avg |-> NoiseAvg, tone |-> NoValue],
      [peak |-> LoudPeak,  avg |-> NoiseAvg, tone |-> Star],
      [peak |-> LoudPeak,  avg |-> NoiseAvg, tone |-> Zero] }

FrameTimeout ==
    \E frame \in TimeoutFrames :
        /\ analysisLoop(frame)
        /\ Len(currentMessageBufferRef') <= MaxBuf
        /\ Len(decodedMessages') <= MaxLog

NextTimeout == startListening(TRUE) \/ FrameTimeout \/ stopListening \/ Tick

\* the loop reschedules itself after every frame while the receiver listens,
\* and the clock never stops
SpecTimeout ==
    Init /\ [][NextTimeout]_vars /\ WF_vars(FrameTimeout) /\ WF_vars(Tick)

\* a session is open whose timeout instant lies within the clock's range, and
\* the log has room for its entry
SessionOpen ==
    /\ isListening
    /\ receivingStateRef = "RECEIVING"
    /\ lastCharTimestampRef + MESSAGE_TIMEOUT_MS < 1 + MaxTicks * TickMs
    /\ Len(decodedMessages) < MaxLog

\* the session is over, a further token was decoded, or listening has stopped
SessionOverOrContinued ==
    \/ receivingStateRef = "IDLE"
    \/ lastFrame.token # NoValue
    \/ ~isListening

\* C35: an abandoned session always ends: while the receiver keeps listening
\* and frames keep arriving, a RECEIVING state in which no further token is
\* decoded eventually becomes IDLE, at the latest in the first frame after the
\* timeout has elapsed; and the timeout never fires or changes anything while
\* the framing state is IDLE.
C35_AbandonedSessionEnds ==
    /\ SessionOpen ~> SessionOverOrContinued
    /\ [][ FrameStep =>
             /\ ( /\ receivingStateRef = "RECEIVING"
                  /\ now - lastCharTimestampRef > MESSAGE_TIMEOUT_MS )
                    => (receivingStateRef' = "IDLE" \/ lastFrame'.token = Star)
             /\ receivingStateRef = "IDLE"
                    => /\ ~lastFrame'.timedOut
                       /\ lastFrame'.token = NoValue
                            => UNCHANGED <<receivingStateRef, currentMessageBufferRef,
                                           lastCharTimestampRef, decodedMessages>> ]_vars

\* a session with a buffered digit has been ended by the timeout in a frame
\* without a token
C35_Witness ==
    /\ lastFrame.op = "frame"
    /\ lastFrame.timedOut
    /\ lastFrame.token = NoValue
    /\ receivingStateRef = "IDLE"
    /\ isListening
    /\ decodedMessages # <<>>
----------------------------------------------------------------------------
(* Stop tokens of the other framing (SpecMulti)                            *)

\* C37: a stop token that does not belong to the active session's framing (a
\* '#' during a checksum-framed FSK session, or the FSK STOP signal during a
\* '*' session) is ignored: the framing state and the buffer of the active
\* session are left unchanged.
C37_ForeignStopIgnored ==
    [][ ( /\ lastFrame'.op = "frame"
          /\ \/ lastFrame'.token = Hash /\ receivingStateRef = "FSK"
             \/ lastFrame'.token = STOP_CHAR /\ receivingStateRef = "DTMF_TEXT" )
          => UNCHANGED <<receivingStateRef, currentMessageBufferRef>> ]_vars
----------------------------------------------------------------------------
(* The checksum of the 'reliable' protocol (SpecTransmit)                  *)

\* the token before STOP in a packet of the shared framing
ChecksumTokenOf(tokens) == tokens[Len(tokens) - 1]

\* C38: under the 'reliable' protocol, whose transform sends every character
\* twice, the checksum over the transformed payload is the first candidate,
\* '0', for every message: the transmitted checksum character does not depend
\* on the content, in the live path and in the offline render alike.
C38_ReliableChecksumConstant ==
    protocolId = "reliable" =>
        /\ packet # <<>> => ChecksumTokenOf(packet) = CHECKSUM_CHAR_CANDIDATES[1]
        /\ wav # NoWav => ChecksumTokenOf(wav.tokens) = CHECKSUM_CHAR_CANDIDATES[1]

\* a message of two different characters is on its way under 'reliable': each
\* is sent twice and the checksum token is '0'
C38_Witness ==
    /\ protocolId = "reliable"
    /\ Len(message) = 2
    /\ message[1] # message[2]
    /\ packet = << START_CHAR, message[1], message[1], message[2], message[2],
                   Zero, STOP_CHAR >>

====
